---- MODULE Spec2Model ----
(***************************************************************************)
(* FutureFit Quest: the event-sourcing core.                               *)
(*                                                                         *)
(*   SafeLocalStorage  - the durable log store (checksum, backup, restore) *)
(*   EventManager      - the event recorder                                *)
(*   ProgressService   - the state deriver (with its result cache)         *)
(*   PolicyEngine      - the access policy over the skill tree             *)
(*   SessionManager    - the lesson-completion workflow                    *)
(*                                                                         *)
(* Conventions.  A JavaScript null/undefined is the empty sequence <<>>,   *)
(* and a present value x is <<x>>, wherever a slot may be empty.  A number *)
(* field that the code reads through "|| default" is 0 when absent: 0 and  *)
(* undefined are both falsy, so the code cannot tell them apart either.    *)
(***************************************************************************)
EXTENDS Integers, Sequences, FiniteSets, TLC

VARIABLES
    \* ---- ProgressService instance and its caller (SpecDerive) ----
    eventHistory,     \* the caller's history array
    cachedState,      \* this.cachedState: <<>> or <<state>>
    cachedVersion,    \* this.cachedVersion: <<>> or <<event id>>
    psCalls,          \* the arguments of the calls made on this instance, in order
    psResult,         \* what the last call returned: <<>> or <<state>>
    \* ---- the key-value backend and the SafeLocalStorage over it ----
    store,            \* key -> <<>> or <<item>>
    stringStore,      \* does the backend keep every value as a string?
    lastProcessedId,  \* this.lastProcessedId
    down,             \* the process stopped inside saveEvent and has not restarted
    clock,            \* Date.now()
    saved,            \* the stamped events whose saveEvent returned their id
    faults,           \* how many tamperings, failed writes and stops happened
    stOp,             \* the last storage operation: what it got and what it gave
    \* ---- SessionManager and PolicyEngine ----
    processedSubmissions,  \* this._processedSubmissions
    isDeveloper,           \* policyEngine.isDeveloper
    smOp,                  \* the last SessionManager call: what it got and what it gave
    peOp                   \* the last PolicyEngine call: what it got and what it gave

psVars == <<eventHistory, cachedState, cachedVersion, psCalls, psResult>>

storeVars == <<store, stringStore, lastProcessedId, down, clock, saved, faults, stOp>>

smVars == <<processedSubmissions, isDeveloper, smOp, peOp>>

vars == <<psVars, storeVars, smVars>>

(***************************************************************************)
(* Bounds of the model.                                                    *)
(***************************************************************************)
MaxHistory == 3
MaxTimestamp == 2
MaxCalls == 2
MaxBatch == 3
MaxClock == 2
MaxTampers == 1
MaxFailures == 1
MaxStops == 1
MaxSessionCalls == 3
MaxVisualHistory == 4
MaxReplayHistory == 3
MaxReplayTimestamp == 2
MaxJourneyHints == 2

(***************************************************************************)
(* Generic helpers.                                                        *)
(***************************************************************************)
Null == <<>>
Some(x) == <<x>>
IsNull(o) == o = <<>>

Last(s) == s[Len(s)]

IsPrefix(s, t) == Len(s) <= Len(t) /\ SubSeq(t, 1, Len(s)) = s

Includes(s, x) == \E i \in 1..Len(s) : s[i] = x

\* Array.prototype.findIndex: the first index whose element has this id, 0 for -1.
FindIndexById(s, id) ==
    IF \E i \in 1..Len(s) : s[i].id = id
    THEN CHOOSE i \in 1..Len(s) : s[i].id = id /\ \A j \in 1..(i-1) : s[j].id # id
    ELSE 0

\* Array.prototype.sort with the comparator a.timestamp - b.timestamp: a stable
\* sort by timestamp (insertion of each element after the elements not greater).
RECURSIVE InsertByTimestamp(_, _)
InsertByTimestamp(sorted, e) ==
    IF sorted = <<>> THEN <<e>>
    ELSE IF Last(sorted).timestamp <= e.timestamp THEN Append(sorted, e)
    ELSE Append(InsertByTimestamp(SubSeq(sorted, 1, Len(sorted) - 1), e), Last(sorted))

RECURSIVE SortByTimestamp(_)
SortByTimestamp(s) ==
    IF s = <<>> THEN <<>>
    ELSE InsertByTimestamp(SortByTimestamp(SubSeq(s, 1, Len(s) - 1)), Last(s))

(***************************************************************************)
(* Events.  payload fields are kept flat: nodeId, isCorrect, scoreAwarded, *)
(* xpEarned, submissionUuid.  An id is <<time, random tiebreaker>>.        *)
(***************************************************************************)
EventTypes == {"QUIZ_ATTEMPT", "VIDEO_COMPLETE", "LOGIN"}

MkEvent(id, userId, type, nodeId, isCorrect, scoreAwarded, xpEarned, sub, ts) ==
    [id |-> id, userId |-> userId, type |-> type, nodeId |-> nodeId,
     isCorrect |-> isCorrect, scoreAwarded |-> scoreAwarded, xpEarned |-> xpEarned,
     submissionUuid |-> sub, timestamp |-> ts]

(***************************************************************************)
(* ProgressService (app/src/engine/ProgressService.js).                    *)
(***************************************************************************)
DefaultXp == 10
VideoXp == 5

BlankState == [xp |-> 0, completedNodes |-> <<>>, streak |-> 0]

PushIfAbsent(nodes, n) == IF Includes(nodes, n) THEN nodes ELSE Append(nodes, n)

\* _applyEventToState: one step of the fold.
applyEventToState(state, event) ==
    CASE event.type = "QUIZ_ATTEMPT" ->
            IF event.isCorrect
            THEN [xp |-> state.xp + (IF event.xpEarned # 0 THEN event.xpEarned ELSE DefaultXp),
                  streak |-> state.streak + 1,
                  completedNodes |-> PushIfAbsent(state.completedNodes, event.nodeId)]
            ELSE [state EXCEPT !.streak = 0]
      [] event.type = "VIDEO_COMPLETE" ->
            [xp |-> state.xp + VideoXp,
             streak |-> state.streak,
             completedNodes |-> PushIfAbsent(state.completedNodes, event.nodeId)]
      [] OTHER -> state

RECURSIVE FoldEvents(_, _)
FoldEvents(state, events) ==
    IF events = <<>> THEN state
    ELSE FoldEvents(applyEventToState(state, Head(events)), Tail(events))

\* eventHistory[eventHistory.length - 1]?.id
LastId(history) == IF history = <<>> THEN Null ELSE Some(Last(history).id)

\* _isCacheFresh: this.cachedVersion === lastId.  null === undefined is false, so an
\* empty history is never fresh.
isCacheFresh(version, history) ==
    history # <<>> /\ version = LastId(history)

\* _getNewEvents: the whole array, or the slice after the cached high-water mark.
getNewEvents(version, fullHistory) ==
    IF IsNull(version) \/ fullHistory = <<>> THEN fullHistory
    ELSE LET idx == FindIndexById(fullHistory, version[1])
         IN  IF idx = 0 THEN fullHistory
             ELSE SubSeq(fullHistory, idx + 1, Len(fullHistory))

\* Does _getNewEvents hand back the caller's own array (which sort then reorders
\* in place) rather than a slice of it?
getNewEventsAliases(version, fullHistory) ==
    IsNull(version) \/ fullHistory = <<>> \/ FindIndexById(fullHistory, version[1]) = 0

\* calculateUserState on an instance whose fields are (cState, cVersion).  Returns
\* the returned state, the instance's fields afterwards and the caller's array
\* afterwards.
calculateUserState(cState, cVersion, history) ==
    IF ~IsNull(cState) /\ isCacheFresh(cVersion, history)
    THEN [result |-> cState[1], cachedState |-> cState, cachedVersion |-> cVersion,
          history |-> history]
    ELSE LET newEvents    == getNewEvents(cVersion, history)
             sortedEvents == SortByTimestamp(newEvents)
             state        == FoldEvents(BlankState, sortedEvents)
         IN  [result |-> state,
              cachedState |-> Some(state),
              cachedVersion |-> LastId(IF getNewEventsAliases(cVersion, history)
                                       THEN sortedEvents ELSE history),
              history |-> IF getNewEventsAliases(cVersion, history)
                          THEN sortedEvents ELSE history]

\* The same call on a newly constructed instance (constructor: both fields null).
FreshUserState(history) == calculateUserState(Null, Null, history).result

\* The fields of a user state the claims compare.
Core(state) == [xp |-> state.xp, streak |-> state.streak,
                completedNodes |-> state.completedNodes]

(***************************************************************************)
(* ProgressService, the full-replay revision (calculateUserState replays   *)
(* every event of a sorted copy; xp reads payload.scoreAwarded; level and  *)
(* xpToNextLevel are derived from xp).                                     *)
(***************************************************************************)
DefaultScore == 10
XpPerLevel == 100

ReplayBlankState == [xp |-> 0, completedNodes |-> <<>>, streak |-> 0, level |-> 1]

\* A completion fold that pushes the node id whether it is there or not.
replayApplyEventToStatePushing(state, event) ==
    CASE event.type = "QUIZ_ATTEMPT" ->
            IF event.isCorrect
            THEN [state EXCEPT
                    !.xp = @ + (IF event.scoreAwarded # 0 THEN event.scoreAwarded
                                ELSE DefaultScore),
                    !.streak = @ + 1,
                    !.completedNodes = Append(@, event.nodeId)]
            ELSE [state EXCEPT !.streak = 0]
      [] event.type = "VIDEO_COMPLETE" ->
            [state EXCEPT !.xp = @ + VideoXp,
                          !.completedNodes = Append(@, event.nodeId)]
      [] OTHER -> state

\* A fold in which a wrong attempt leaves the streak alone.
replayApplyEventToStateNoReset(state, event) ==
    CASE event.type = "QUIZ_ATTEMPT" ->
            IF event.isCorrect
            THEN [state EXCEPT
                    !.xp = @ + (IF event.scoreAwarded # 0 THEN event.scoreAwarded
                                ELSE DefaultScore),
                    !.streak = @ + 1,
                    !.completedNodes = PushIfAbsent(@, event.nodeId)]
            ELSE state
      [] event.type = "VIDEO_COMPLETE" ->
            [state EXCEPT !.xp = @ + VideoXp,
                          !.completedNodes = PushIfAbsent(@, event.nodeId)]
      [] OTHER -> state

\* _applyEventToState of the full-replay revision.  scoreAwarded || 10: a
\* scoreAwarded of 0 counts as none.
replayApplyEventToState(state, event) ==
    CASE event.type = "QUIZ_ATTEMPT" ->
            IF event.isCorrect
            THEN [state EXCEPT
                    !.xp = @ + (IF event.scoreAwarded # 0 THEN event.scoreAwarded
                                ELSE DefaultScore),
                    !.streak = @ + 1,
                    !.completedNodes = PushIfAbsent(@, event.nodeId)]
            ELSE [state EXCEPT !.streak = 0]
      [] event.type = "VIDEO_COMPLETE" ->
            [state EXCEPT !.xp = @ + VideoXp,
                          !.completedNodes = PushIfAbsent(@, event.nodeId)]
      [] OTHER -> state

RECURSIVE ReplayFoldEvents(_, _)
ReplayFoldEvents(state, events) ==
    IF events = <<>> THEN state
    ELSE ReplayFoldEvents(replayApplyEventToState(state, Head(events)), Tail(events))

\* calculateUserState that folds the events in the order they were handed in.
replayCalculateUserStateUnsorted(history) ==
    LET state == ReplayFoldEvents(ReplayBlankState, history)
    IN  [xp |-> state.xp, completedNodes |-> state.completedNodes,
         streak |-> state.streak,
         level |-> (state.xp \div XpPerLevel) + 1,
         xpToNextLevel |-> XpPerLevel - (state.xp % XpPerLevel)]

\* calculateUserState whose levels start at 0.
replayCalculateUserStateLevelZero(history) ==
    LET sortedEvents == SortByTimestamp(history)
        state        == ReplayFoldEvents(ReplayBlankState, sortedEvents)
    IN  [xp |-> state.xp, completedNodes |-> state.completedNodes,
         streak |-> state.streak,
         level |-> state.xp \div XpPerLevel,
         xpToNextLevel |-> XpPerLevel - (state.xp % XpPerLevel)]

\* calculateUserState of the full-replay revision: the fold over a sorted copy,
\* then level and xpToNextLevel.  The caller's array is not touched.
replayCalculateUserState(history) ==
    LET sortedEvents == SortByTimestamp(history)
        state        == ReplayFoldEvents(ReplayBlankState, sortedEvents)
    IN  [xp |-> state.xp, completedNodes |-> state.completedNodes,
         streak |-> state.streak,
         level |-> (state.xp \div XpPerLevel) + 1,
         xpToNextLevel |-> XpPerLevel - (state.xp % XpPerLevel)]

(***************************************************************************)
(* The key-value backend under SafeLocalStorage (window.localStorage, or   *)
(* the tests' mocks).  A stored item is [t, v]: t is its JavaScript type   *)
(* and v its content: the character codes of a string, or the two 16-bit   *)
(* halves <<high, low>> of an unsigned 32-bit number.                      *)
(***************************************************************************)
Keys == {"events", "checksum", "temp", "backup", "backup_checksum"}

Str(codes) == [t |-> "string", v |-> codes]
Num(halves) == [t |-> "number", v |-> halves]

Half == 65536

EmptyStore == [k \in Keys |-> Null]

\* JavaScript truthiness of what getItem returned: null, "" and 0 are falsy.
Truthy(item) ==
    /\ ~IsNull(item)
    /\ ~(item[1].t = "string" /\ item[1].v = <<>>)
    /\ ~(item[1].t = "number" /\ item[1].v = <<0, 0>>)

\* Number.prototype.toString of an unsigned 32-bit number <<high, low>>: its
\* decimal digits as character codes ("0" is 48), by long division by ten.
DivTen(n) ==
    LET t == (n[1] % 10) * Half + n[2]
    IN  [q |-> <<n[1] \div 10, t \div 10>>, r |-> t % 10]

RECURSIVE DecimalDigits(_)
DecimalDigits(n) ==
    IF n[1] = 0 /\ n[2] < 10 THEN <<48 + n[2]>>
    ELSE Append(DecimalDigits(DivTen(n).q), 48 + DivTen(n).r)

\* What setItem keeps of a value: localStorage and the CLI tests' MockStorage
\* (value.toString()) keep a string; the SessionManager test's mock keeps the
\* value itself.
Stored(asString, value) ==
    IF asString /\ value.t = "number" THEN Str(DecimalDigits(value.v)) ELSE value

setItem(st, asString, key, value) ==
    [st EXCEPT ![key] = Some(Stored(asString, value))]

removeItem(st, key) == [st EXCEPT ![key] = Null]

(***************************************************************************)
(* JSON.stringify / JSON.parse of a batch.  The text is "[" then ten       *)
(* characters per event (one per field, the field's index in its table)    *)
(* then "]": enough of JSON to make the text differ whenever the batch     *)
(* does, and to make the checksum depend on order and content.             *)
(***************************************************************************)
UserTable == <<"u1", "u2", "">>
TypeTable == <<"QUIZ_ATTEMPT", "VIDEO_COMPLETE", "LOGIN", "HACKED", "">>
NodeTable == <<"module_1_intro", "module_1_quiz", "module_2_excel", "module_3_python",
               "nonexistent_node", "n1", "n2">>
SubTable  == <<"s0", "s1", "s2", "s3">>

IndexIn(table, x) == CHOOSE i \in 1..Len(table) : table[i] = x

EventWidth == 10

EventText(e) ==
    <<e.id[1], e.id[2], IndexIn(UserTable, e.userId), IndexIn(TypeTable, e.type),
      IndexIn(NodeTable, e.nodeId), IF e.isCorrect THEN 1 ELSE 0, e.scoreAwarded,
      e.xpEarned, IndexIn(SubTable, e.submissionUuid), e.timestamp>>

TextEvent(c) ==
    MkEvent(<<c[1], c[2]>>, UserTable[c[3]], TypeTable[c[4]], NodeTable[c[5]],
            c[6] = 1, c[7], c[8], SubTable[c[9]], c[10])

RECURSIVE ConcatEvents(_)
ConcatEvents(batch) ==
    IF batch = <<>> THEN <<>>
    ELSE EventText(Head(batch)) \o ConcatEvents(Tail(batch))

stringify(batch) == <<91>> \o ConcatEvents(batch) \o <<93>>

parse(text) ==
    [i \in 1..((Len(text) - 2) \div EventWidth) |->
        TextEvent(SubSeq(text, 2 + (i - 1) * EventWidth, 1 + i * EventWidth))]

(***************************************************************************)
(* SafeLocalStorage (app/src/engine/SafeLocalStorage.js).                  *)
(***************************************************************************)
Djb2Seed == 5381

\* hash = ((hash << 5) + hash) + charCode, kept modulo 2^32 in two 16-bit halves.
Djb2Step(h, c) ==
    LET low == h[2] * 33 + c
    IN  <<(h[1] * 33 + (low \div Half)) % Half, low % Half>>

RECURSIVE Djb2(_, _)
Djb2(h, text) ==
    IF text = <<>> THEN h ELSE Djb2(Djb2Step(h, Head(text)), Tail(text))

\* _calculateChecksum: a number (hash >>> 0).
calculateChecksum(batch) == Num(Djb2(<<0, Djb2Seed>>, stringify(batch)))

\* _loadRawData
loadRawData(st) ==
    IF Truthy(st["events"]) THEN parse(st["events"][1].v) ELSE <<>>

\* getNewEventsSince
\* getNewEventsSince whose slice starts at the event with the id, not after it.
getNewEventsSinceInclusive(st, lastId) ==
    LET all == loadRawData(st)
    IN  IF IsNull(lastId) THEN all
        ELSE LET idx == FindIndexById(all, lastId[1])
             IN  IF idx = 0 THEN all ELSE SubSeq(all, idx, Len(all))

getNewEventsSince(st, lastId) ==
    LET all == loadRawData(st)
    IN  IF IsNull(lastId) THEN all
        ELSE LET idx == FindIndexById(all, lastId[1])
             IN  IF idx = 0 THEN all ELSE SubSeq(all, idx + 1, Len(all))

\* _createBackup writes nothing unless both slots are truthy.
BackupWanted(st) == Truthy(st["events"]) /\ Truthy(st["checksum"])

\* _restoreFromBackup's test: both backup slots truthy.
BackupUsable(st) == Truthy(st["backup"]) /\ Truthy(st["backup_checksum"])

\* _restoreFromBackup: the store afterwards (unchanged when it returns false).
restoreFromBackup(st, asString) ==
    IF BackupUsable(st)
    THEN setItem(setItem(st, asString, "events", st["backup"][1]),
                 asString, "checksum", st["backup_checksum"][1])
    ELSE st

\* saveEvent whose _createBackup leaves an existing backup pair alone.
SaveWritesKeepingBackup(st, batch) ==
    (IF BackupWanted(st) /\ ~BackupUsable(st)
     THEN << [op |-> "set", key |-> "backup", value |-> st["events"][1]],
             [op |-> "set", key |-> "backup_checksum", value |-> st["checksum"][1]] >>
     ELSE <<>>)
    \o
    << [op |-> "set", key |-> "temp", value |-> Str(stringify(batch))],
       [op |-> "set", key |-> "checksum", value |-> calculateChecksum(batch)],
       [op |-> "set", key |-> "events", value |-> Str(stringify(batch))],
       [op |-> "remove", key |-> "temp", value |-> Str(<<>>)] >>

\* saveEvent that commits the batch before it writes the checksum.
SaveWritesCommitFirst(st, batch) ==
    (IF BackupWanted(st)
     THEN << [op |-> "set", key |-> "backup", value |-> st["events"][1]],
             [op |-> "set", key |-> "backup_checksum", value |-> st["checksum"][1]] >>
     ELSE <<>>)
    \o
    << [op |-> "set", key |-> "temp", value |-> Str(stringify(batch))],
       [op |-> "set", key |-> "events", value |-> Str(stringify(batch))],
       [op |-> "set", key |-> "checksum", value |-> calculateChecksum(batch)],
       [op |-> "remove", key |-> "temp", value |-> Str(<<>>)] >>

\* The storage writes of saveEvent, in program order: the two of _createBackup
\* (when it backs up at all), then staging, checksum, permanent, cleanup.
SaveWrites(st, batch) ==
    (IF BackupWanted(st)
     THEN << [op |-> "set", key |-> "backup", value |-> st["events"][1]],
             [op |-> "set", key |-> "backup_checksum", value |-> st["checksum"][1]] >>
     ELSE <<>>)
    \o
    << [op |-> "set", key |-> "temp", value |-> Str(stringify(batch))],
       [op |-> "set", key |-> "checksum", value |-> calculateChecksum(batch)],
       [op |-> "set", key |-> "events", value |-> Str(stringify(batch))],
       [op |-> "remove", key |-> "temp", value |-> Str(<<>>)] >>

ApplyWrite(st, asString, w) ==
    IF w.op = "set" THEN setItem(st, asString, w.key, w.value)
    ELSE removeItem(st, w.key)

\* The store after the first n writes of ws.
RECURSIVE ApplyWrites(_, _, _, _)
ApplyWrites(st, asString, ws, n) ==
    IF n = 0 THEN st
    ELSE ApplyWrite(ApplyWrites(st, asString, ws, n - 1), asString, ws[n])

\* The keys whose setItem may throw (QuotaExceededError); removeItem does not.
FailPoints == {"none", "backup", "backup_checksum", "temp", "checksum", "events"}

\* Index of the write to key k in ws, 0 when ws has none.
WriteIndex(ws, k) ==
    IF \E i \in 1..Len(ws) : ws[i].op = "set" /\ ws[i].key = k
    THEN CHOOSE i \in 1..Len(ws) : ws[i].op = "set" /\ ws[i].key = k
    ELSE 0

\* saveEvent(event) with the id it draws, and the write that throws (failAt).
\* outcome "id": returned eventId; "null": the catch ran and returned null;
\* "throw": _createBackup threw, outside the try.
saveEvent(st, asString, lastId, event, eventId, failAt) ==
    LET stampedEvent == [event EXCEPT !.id = eventId]
        batch == Append(loadRawData(st), stampedEvent)
        ws    == SaveWrites(st, batch)
        f     == IF failAt = "none" THEN 0 ELSE WriteIndex(ws, failAt)
    IN  IF f = 0
        THEN [store |-> ApplyWrites(st, asString, ws, Len(ws)),
              outcome |-> "id", value |-> Some(eventId), lastProcessedId |-> Some(eventId)]
        ELSE IF failAt \in {"backup", "backup_checksum"}
        THEN [store |-> ApplyWrites(st, asString, ws, f - 1),
              outcome |-> "throw", value |-> Null, lastProcessedId |-> lastId]
        ELSE [store |-> restoreFromBackup(ApplyWrites(st, asString, ws, f - 1),
                                          asString),
              outcome |-> "null", value |-> Null, lastProcessedId |-> lastId]

\* getAllEvents as it was before the backup restore was added ("OLD: return [];
\* // Total data loss"): a mismatch is answered with an empty list.
getAllEventsSilent(st, asString, lastId) ==
    LET rawData == loadRawData(st)
        storedChecksum == st["checksum"]
        calculatedChecksum == calculateChecksum(rawData)
    IN  IF Truthy(storedChecksum) /\ storedChecksum[1] # calculatedChecksum
        THEN [store |-> st, outcome |-> "ok", value |-> <<>>,
              detected |-> TRUE, restored |-> FALSE, lastProcessedId |-> lastId]
        ELSE [store |-> st, outcome |-> "ok", value |-> rawData,
              detected |-> FALSE, restored |-> FALSE,
              lastProcessedId |-> IF rawData # <<>> THEN Some(Last(rawData).id) ELSE lastId]

\* getAllEvents.  outcome "ok": returned value; "throw": CORRUPTION_NO_BACKUP.
\* restored: the corruption branch ran and installed the backup.
getAllEvents(st, asString, lastId) ==
    LET rawData == loadRawData(st)
        storedChecksum == st["checksum"]
        calculatedChecksum == calculateChecksum(rawData)
    IN  IF Truthy(storedChecksum) /\ storedChecksum[1] # calculatedChecksum
        THEN IF BackupUsable(st)
             THEN [store |-> restoreFromBackup(st, asString), outcome |-> "ok",
                   value |-> loadRawData(restoreFromBackup(st, asString)),
                   detected |-> TRUE, restored |-> TRUE, lastProcessedId |-> lastId]
             ELSE [store |-> st, outcome |-> "throw", value |-> <<>>,
                   detected |-> TRUE, restored |-> FALSE, lastProcessedId |-> lastId]
        ELSE [store |-> st, outcome |-> "ok", value |-> rawData,
              detected |-> FALSE, restored |-> FALSE,
              lastProcessedId |-> IF rawData # <<>> THEN Some(Last(rawData).id) ELSE lastId]

(***************************************************************************)
(* SkillTree (app/src/engine/SkillTree.js): the static content graph.      *)
(* tolerance is in thousandths.                                            *)
(***************************************************************************)
NoQuestion == [questionType |-> "none", correctAnswer |-> "", tolerance |-> 0,
               caseSensitive |-> FALSE]

RESKILLING_TREE ==
    << [id |-> "module_1_intro", prerequisites |-> <<>>, hasQuestion |-> FALSE,
        question |-> NoQuestion],
       [id |-> "module_1_quiz", prerequisites |-> <<"module_1_intro">>, hasQuestion |-> TRUE,
        question |-> [questionType |-> "multiple_choice", correctAnswer |-> "B",
                      tolerance |-> 0, caseSensitive |-> FALSE]],
       [id |-> "module_2_excel", prerequisites |-> <<"module_1_quiz">>, hasQuestion |-> TRUE,
        question |-> [questionType |-> "numeric", correctAnswer |-> "30",
                      tolerance |-> 10, caseSensitive |-> FALSE]],
       [id |-> "module_3_python", prerequisites |-> <<"module_2_excel">>, hasQuestion |-> TRUE,
        question |-> [questionType |-> "text", correctAnswer |-> "def",
                      tolerance |-> 0, caseSensitive |-> TRUE]] >>

\* Array.prototype.find on a tree: <<>> or <<node>>.
FindNode(tree, nodeId) ==
    IF \E i \in 1..Len(tree) : tree[i].id = nodeId
    THEN Some(tree[CHOOSE i \in 1..Len(tree) :
                     tree[i].id = nodeId /\ \A j \in 1..(i - 1) : tree[j].id # nodeId])
    ELSE Null

getNode(nodeId) == FindNode(RESKILLING_TREE, nodeId)

getQuestion(nodeId) ==
    LET node == getNode(nodeId)
    IN  IF IsNull(node) \/ ~node[1].hasQuestion THEN Null ELSE Some(node[1].question)

arePrerequisitesMet(nodeId, completedNodeIds) ==
    LET node == getNode(nodeId)
    IN  IF IsNull(node) THEN FALSE
        ELSE \A i \in 1..Len(node[1].prerequisites) :
                Includes(completedNodeIds, node[1].prerequisites[i])

getUnlockedNodes(completedNodeIds) ==
    LET Unlocked(node) == /\ ~Includes(completedNodeIds, node.id)
                          /\ arePrerequisitesMet(node.id, completedNodeIds)
    IN  SelectSeq(RESKILLING_TREE, Unlocked)

(***************************************************************************)
(* PolicyEngine (app/src/engine/PolicyEngine.js).  tree is this.tree.       *)
(***************************************************************************)
\* configure that takes a profile without the field for a developer's.
configureOmittedIsDeveloper(profile) == IF IsNull(profile) THEN TRUE ELSE profile[1]

\* configure(userProfile): userProfile.isDeveloper || false.  profile is <<>>
\* for a profile without the field.
configure(profile) == IF IsNull(profile) THEN FALSE ELSE profile[1]

\* canAccessNode that looks the node up before it looks at the developer flag.
canAccessNodeLookupFirst(tree, developer, nodeId, userState) ==
    LET targetNode == FindNode(tree, nodeId)
    IN  IF IsNull(targetNode) THEN [allowed |-> FALSE, reason |-> "NODE_NOT_FOUND"]
        ELSE IF developer THEN [allowed |-> TRUE, reason |-> "DEV_OVERRIDE"]
        ELSE IF \A i \in 1..Len(targetNode[1].prerequisites) :
                   Includes(userState.completedNodes, targetNode[1].prerequisites[i])
             THEN [allowed |-> TRUE, reason |-> "PREREQS_MET"]
             ELSE [allowed |-> FALSE, reason |-> "LOCKED_PREREQ_MISSING"]

\* canAccessNode(nodeId, userState) on an engine whose flag is developer.
canAccessNode(tree, developer, nodeId, userState) ==
    IF developer THEN [allowed |-> TRUE, reason |-> "DEV_OVERRIDE"]
    ELSE LET targetNode == FindNode(tree, nodeId)
         IN  IF IsNull(targetNode) THEN [allowed |-> FALSE, reason |-> "NODE_NOT_FOUND"]
             ELSE IF \A i \in 1..Len(targetNode[1].prerequisites) :
                        Includes(userState.completedNodes, targetNode[1].prerequisites[i])
                  THEN [allowed |-> TRUE, reason |-> "PREREQS_MET"]
                  ELSE [allowed |-> FALSE, reason |-> "LOCKED_PREREQ_MISSING"]

\* getVisualState that looks at attemptedNodes before the prerequisites.
getVisualStateAttemptFirst(tree, nodeId, userState) ==
    LET completed  == userState.completedNodes
        attempted  == userState.attemptedNodes
        targetNode == FindNode(tree, nodeId)
        Unmet(req) == ~Includes(completed, req)
    IN  IF Includes(completed, nodeId) THEN "COMPLETED"
        ELSE IF IsNull(targetNode) THEN "LOCKED_FAR"
        ELSE IF Includes(attempted, nodeId) THEN "IN_PROGRESS"
        ELSE IF Len(SelectSeq(targetNode[1].prerequisites, Unmet)) = 0 THEN "UNLOCKED_NEW"
        ELSE IF Len(SelectSeq(targetNode[1].prerequisites, Unmet)) = 1
             THEN "LOCKED_NEAR" ELSE "LOCKED_FAR"

\* getVisualState with LOCKED_NEAR and LOCKED_FAR exchanged.
getVisualStateSwapped(tree, nodeId, userState) ==
    LET completed  == userState.completedNodes
        attempted  == userState.attemptedNodes
        targetNode == FindNode(tree, nodeId)
        Unmet(req) == ~Includes(completed, req)
    IN  IF Includes(completed, nodeId) THEN "COMPLETED"
        ELSE IF IsNull(targetNode) THEN "LOCKED_NEAR"
        ELSE IF Len(SelectSeq(targetNode[1].prerequisites, Unmet)) = 0
             THEN (IF Includes(attempted, nodeId) THEN "IN_PROGRESS" ELSE "UNLOCKED_NEW")
        ELSE IF Len(SelectSeq(targetNode[1].prerequisites, Unmet)) = 1
             THEN "LOCKED_FAR" ELSE "LOCKED_NEAR"

\* getVisualState(nodeId, userState): one of the five visual states.
getVisualState(tree, nodeId, userState) ==
    LET completed  == userState.completedNodes
        attempted  == userState.attemptedNodes
        targetNode == FindNode(tree, nodeId)
        Unmet(req) == ~Includes(completed, req)
    IN  IF Includes(completed, nodeId) THEN "COMPLETED"
        ELSE IF IsNull(targetNode) THEN "LOCKED_FAR"
        ELSE IF Len(SelectSeq(targetNode[1].prerequisites, Unmet)) = 0
             THEN (IF Includes(attempted, nodeId) THEN "IN_PROGRESS" ELSE "UNLOCKED_NEW")
        ELSE IF Len(SelectSeq(targetNode[1].prerequisites, Unmet)) = 1
             THEN "LOCKED_NEAR" ELSE "LOCKED_FAR"

(***************************************************************************)
(* EventManager (app/src/engine/EventManager.js).                          *)
(***************************************************************************)
\* recordEvent without its validation step.
recordEventUnchecked(st, asString, lastId, userId, type, payload, now, eventId, failAt) ==
    saveEvent(st, asString, lastId,
              MkEvent(<<0, 0>>, userId, type, payload.nodeId, payload.isCorrect,
                      payload.scoreAwarded, payload.xpEarned, payload.submissionUuid,
                      now),
              eventId, failAt)

\* recordEvent: null without a save when userId or type is missing, else what
\* saveEvent gives.  payload carries the flat payload fields.
recordEvent(st, asString, lastId, userId, type, payload, now, eventId, failAt) ==
    IF userId = "" \/ type = ""
    THEN [store |-> st, outcome |-> "null", value |-> Null, lastProcessedId |-> lastId]
    ELSE saveEvent(st, asString, lastId,
                   MkEvent(<<0, 0>>, userId, type, payload.nodeId, payload.isCorrect,
                           payload.scoreAwarded, payload.xpEarned, payload.submissionUuid,
                           now),
                   eventId, failAt)

\* getUserHistory: getAllEvents, then the events of this user.
getUserHistory(st, asString, lastId, userId) ==
    LET all == getAllEvents(st, asString, lastId)
        Mine(e) == e.userId = userId
    IN  [all EXCEPT !.value = SelectSeq(all.value, Mine)]

(***************************************************************************)
(* SessionManager (app/src/engine/SessionManager.js).                      *)
(***************************************************************************)
BaseScore == 10
HintPenalty == 2
MinScore == 1
DefaultTolerance == 10

\* The answers a user may submit, and the string functions on them.
Answers == {"A", "B", "30.005", "31", "def", " def ", "DEF"}

trim(a) == IF a = " def " THEN "def" ELSE a

toLowerCase(a) ==
    CASE a = "A" -> "a" [] a = "B" -> "b" [] a = "DEF" -> "def" [] OTHER -> a

\* parseFloat in thousandths: <<>> is NaN.
parseFloat(a) ==
    CASE a = "30" -> <<30000>> [] a = "30.005" -> <<30005>> [] a = "31" -> <<31000>>
      [] OTHER -> <<>>

Abs(x) == IF x < 0 THEN 0 - x ELSE x

\* A maximum that is its first argument: a score without the floor.
MaxIsFirst(a, b) == a

Max(a, b) == IF a >= b THEN a ELSE b

\* _validateAnswer: threw is "none" or the error it throws.
validateAnswer(nodeId, userAnswer, hintsUsed) ==
    LET question == getQuestion(nodeId)
        Result(isCorrect) ==
            [threw |-> "none", isCorrect |-> isCorrect,
             scoreAwarded |-> IF isCorrect
                              THEN Max(BaseScore - hintsUsed * HintPenalty, MinScore) ELSE 0]
        Thrown(error) == [threw |-> error, isCorrect |-> FALSE, scoreAwarded |-> 0]
    IN  IF IsNull(question) THEN Thrown("NO_QUESTION")
        ELSE LET q == question[1]
             IN  CASE q.questionType = "multiple_choice" ->
                        Result(userAnswer = q.correctAnswer)
                   [] q.questionType = "numeric" ->
                        LET tolerance == IF q.tolerance # 0 THEN q.tolerance
                                         ELSE DefaultTolerance
                            a == parseFloat(userAnswer)
                            c == parseFloat(q.correctAnswer)
                        IN  Result(a # <<>> /\ c # <<>> /\ Abs(a[1] - c[1]) < tolerance)
                   [] q.questionType = "text" ->
                        IF q.caseSensitive
                        THEN Result(trim(userAnswer) = trim(q.correctAnswer))
                        ELSE Result(toLowerCase(trim(userAnswer)) = toLowerCase(q.correctAnswer))
                   [] OTHER -> Thrown("UNKNOWN_QUESTION_TYPE")

\* _getCompletedNodes: Array.from of the set of correctly answered node ids.
RECURSIVE getCompletedNodes(_)
getCompletedNodes(userHistory) ==
    IF userHistory = <<>> THEN <<>>
    ELSE LET before == getCompletedNodes(SubSeq(userHistory, 1, Len(userHistory) - 1))
             event  == Last(userHistory)
         IN  IF event.type = "QUIZ_ATTEMPT" /\ event.isCorrect
             THEN PushIfAbsent(before, event.nodeId) ELSE before

\* An attempted list that takes every attempt's node id, seen before or not.
RECURSIVE getAttemptedNodesRepeating(_)
getAttemptedNodesRepeating(userHistory) ==
    IF userHistory = <<>> THEN <<>>
    ELSE LET before == getAttemptedNodesRepeating(SubSeq(userHistory, 1, Len(userHistory) - 1))
             event  == Last(userHistory)
         IN  IF event.type = "QUIZ_ATTEMPT"
             THEN Append(before, event.nodeId) ELSE before

\* _getAttemptedNodes: the node ids of all quiz attempts, right or wrong, each
\* once (the derivation behind getCurrentProgress().attemptedNodes).
RECURSIVE getAttemptedNodes(_)
getAttemptedNodes(userHistory) ==
    IF userHistory = <<>> THEN <<>>
    ELSE LET before == getAttemptedNodes(SubSeq(userHistory, 1, Len(userHistory) - 1))
             event  == Last(userHistory)
         IN  IF event.type = "QUIZ_ATTEMPT"
             THEN PushIfAbsent(before, event.nodeId) ELSE before

\* _getNextNode: the first unlocked node, or null.
getNextNode(completedNodes) ==
    LET available == getUnlockedNodes(completedNodes)
    IN  IF available = <<>> THEN Null ELSE Some(available[1].id)

\* A STEP 1 that lets every submission through.
isDuplicateSubmissionNever(processed, submissionUuid) == FALSE

\* STEP 1 of handleLessonCompletion: was this submission processed already?
isDuplicateSubmission(processed, submissionUuid) == submissionUuid \in processed

\* What a SessionManager call leaves behind and returns.  sm holds the fields of
\* the engines: store, lastProcessedId, cachedState, cachedVersion, processed.
Outcome(sm, outcome, recorded, assessment, history, progress, nextNode) ==
    [sm |-> sm, outcome |-> outcome, recorded |-> recorded,
     isCorrect |-> assessment.isCorrect, scoreAwarded |-> assessment.scoreAwarded,
     history |-> history, progress |-> progress, nextNode |-> nextNode]

NoAssessment == [threw |-> "none", isCorrect |-> FALSE, scoreAwarded |-> 0]

\* handleLessonCompletion(userId, nodeId, attemptData).  env gives the time, the
\* id's tiebreaker and the storage write that throws, if any.
handleLessonCompletion(sm, asString, userId, nodeId, attemptData, env) ==
    IF isDuplicateSubmission(sm.processed, attemptData.submissionUuid)
    THEN Outcome(sm, "DUPLICATE_SUBMISSION", "none", NoAssessment, <<>>, BlankState, Null)
    ELSE
    LET assessment == validateAnswer(nodeId, attemptData.userAnswer, attemptData.hintsUsed)
    IN  IF assessment.threw # "none"
        THEN Outcome(sm, assessment.threw, "none", NoAssessment, <<>>, BlankState, Null)
        ELSE
    LET eventPayload == [nodeId |-> nodeId, isCorrect |-> assessment.isCorrect,
                         scoreAwarded |-> assessment.scoreAwarded, xpEarned |-> 0,
                         submissionUuid |-> attemptData.submissionUuid]
        rec == recordEvent(sm.store, asString, sm.lastProcessedId, userId, "QUIZ_ATTEMPT",
                           eventPayload, env.now, <<env.now, env.rand>>, env.failAt)
    IN  IF rec.outcome = "throw"
        THEN Outcome([sm EXCEPT !.store = rec.store], "WRITE_ERROR", "throw", assessment,
                     <<>>, BlankState, Null)
        ELSE
    LET marked == sm.processed \cup {attemptData.submissionUuid}
        hist   == getUserHistory(rec.store, asString, rec.lastProcessedId, userId)
    IN  IF hist.outcome = "throw"
        THEN Outcome([sm EXCEPT !.store = hist.store, !.lastProcessedId = hist.lastProcessedId,
                                !.processed = marked],
                     "CORRUPTION_NO_BACKUP", rec.outcome, assessment, <<>>, BlankState, Null)
        ELSE
    LET derived   == calculateUserState(sm.cachedState, sm.cachedVersion, hist.value)
        completed == getCompletedNodes(hist.value)
        nextNode  == getNextNode(IF assessment.isCorrect
                                 THEN Append(completed, nodeId) ELSE completed)
    IN  Outcome([store |-> hist.store, lastProcessedId |-> hist.lastProcessedId,
                 cachedState |-> derived.cachedState, cachedVersion |-> derived.cachedVersion,
                 processed |-> marked],
                "success", rec.outcome, assessment, hist.value, derived.result, nextNode)

\* getCurrentProgress(userId)
getCurrentProgress(sm, asString, userId) ==
    LET hist == getUserHistory(sm.store, asString, sm.lastProcessedId, userId)
    IN  IF hist.outcome = "throw"
        THEN Outcome(sm, "CORRUPTION_NO_BACKUP", "none", NoAssessment, <<>>, BlankState, Null)
        ELSE
    LET derived   == calculateUserState(sm.cachedState, sm.cachedVersion, hist.value)
        completed == getCompletedNodes(hist.value)
    IN  Outcome([sm EXCEPT !.store = hist.store, !.lastProcessedId = hist.lastProcessedId,
                           !.cachedState = derived.cachedState,
                           !.cachedVersion = derived.cachedVersion],
                "success", "none", NoAssessment, hist.value,
                [derived.result EXCEPT !.completedNodes = completed],
                getNextNode(completed))

(***************************************************************************)
(* SpecDerive: a caller that grows a history and derives state from it on  *)
(* one ProgressService instance.                                           *)
(***************************************************************************)
DeriveNodes == {"n1", "n2"}

NextDeriveId == <<Len(eventHistory) + 1, 0>>

DeriveEvents ==
    { MkEvent(NextDeriveId, "u1", "QUIZ_ATTEMPT", n, c, 0, x, "s0", ts) :
        n \in DeriveNodes, c \in BOOLEAN, x \in {0, 7}, ts \in 1..MaxTimestamp }
    \cup
    { MkEvent(NextDeriveId, "u1", ty, "n1", FALSE, 0, 0, "s0", ts) :
        ty \in {"VIDEO_COMPLETE", "LOGIN"}, ts \in 1..MaxTimestamp }

NoOp == [name |-> "none", outcome |-> "none", value |-> <<>>, detected |-> FALSE,
         restored |-> FALSE, pre |-> EmptyStore, failAt |-> "none", batch |-> <<>>]

NoFaults == [tamper |-> 0, fail |-> 0, stop |-> 0]

NoCall == [name |-> "none", outcome |-> "none", userId |-> "", nodeId |-> "",
           submissionUuid |-> "", hintsUsed |-> 0, failAt |-> "none",
           wasProcessed |-> FALSE, recorded |-> "none", isCorrect |-> FALSE,
           scoreAwarded |-> 0, history |-> <<>>, progress |-> BlankState,
           nextNode |-> Null, preBatch |-> <<>>, preProcessed |-> {}, calls |-> 0]

NoPolicyCall == [name |-> "none", developer |-> FALSE, nodeId |-> "",
                 userState |-> [completedNodes |-> <<>>, attemptedNodes |-> <<>>],
                 allowed |-> FALSE, reason |-> "", visualState |-> "",
                 configured |-> Null]

\* new ProgressService() and an empty history; an empty backend of either kind and
\* new SafeLocalStorage(prefix) over it (the constructor's integrity check reads an
\* empty store and changes nothing); new PolicyEngine(); new SessionManager(engines).
Init ==
    /\ eventHistory = <<>>
    /\ cachedState = Null
    /\ cachedVersion = Null
    /\ psCalls = <<>>
    /\ psResult = Null
    /\ store = EmptyStore
    /\ stringStore \in BOOLEAN
    /\ lastProcessedId = Null
    /\ down = FALSE
    /\ clock = 1
    /\ saved = <<>>
    /\ faults = NoFaults
    /\ stOp = NoOp
    /\ processedSubmissions = {}
    /\ isDeveloper = FALSE
    /\ smOp = NoCall
    /\ peOp = NoPolicyCall

\* The caller appends one event to its history.
AppendToHistory ==
    /\ Len(eventHistory) < MaxHistory
    /\ \E e \in DeriveEvents : eventHistory' = Append(eventHistory, e)
    /\ UNCHANGED <<cachedState, cachedVersion, psCalls, psResult>>
    /\ UNCHANGED <<storeVars, smVars>>

\* progressService.calculateUserState(eventHistory.slice(0, k)) for k below the
\* length (a copy), and calculateUserState(eventHistory) itself for k = length.
Derive ==
    /\ Len(psCalls) < MaxCalls
    /\ \E k \in 0..Len(eventHistory) :
         LET arg == SubSeq(eventHistory, 1, k)
             r   == calculateUserState(cachedState, cachedVersion, arg)
         IN  /\ psResult' = Some(r.result)
             /\ cachedState' = r.cachedState
             /\ cachedVersion' = r.cachedVersion
             /\ psCalls' = Append(psCalls, arg)
             /\ eventHistory' = IF k = Len(eventHistory) THEN r.history ELSE eventHistory
    /\ UNCHANGED <<storeVars, smVars>>

\* new ProgressService()
NewProgressService ==
    /\ psCalls # <<>>
    /\ cachedState' = Null
    /\ cachedVersion' = Null
    /\ psCalls' = <<>>
    /\ psResult' = Null
    /\ UNCHANGED eventHistory
    /\ UNCHANGED <<storeVars, smVars>>

DeriveNext == AppendToHistory \/ Derive \/ NewProgressService

SpecDerive == Init /\ [][DeriveNext]_vars

\* C1: after calculateUserState(H[0:k]) and then calculateUserState(H) on one
\* instance, the returned xp, streak and completedNodes are those that
\* calculateUserState(H) returns on a fresh instance.
C1_IncrementalEqualsFullReplay ==
    (Len(psCalls) = 2 /\ IsPrefix(psCalls[1], psCalls[2]))
        => Core(psResult[1]) = Core(FreshUserState(psCalls[2]))

(***************************************************************************)
(* SpecStore: callers of one SafeLocalStorage, a backend whose setItem may *)
(* throw, a process that may stop between two writes and restart, and      *)
(* tampering with the stored batch or checksum from outside.               *)
(***************************************************************************)
\* The events handed to saveEvent; the id it stamps tells them apart.
StoreEvents ==
    { MkEvent(<<0, 0>>, "u1", "QUIZ_ATTEMPT", "module_1_quiz", TRUE, 10, 0, "s1", clock) }

\* Date.now() advances or not between two calls; Math.random() draws the tiebreaker.
Ticks == { t \in {clock, clock + 1} : t <= MaxClock }
Randoms == {0, 1}

\* db.saveEvent(event), every write succeeding or one of them throwing.
SaveEvent ==
    /\ ~down
    /\ Len(saved) + faults.fail + faults.stop < MaxBatch
    /\ \E e \in StoreEvents, t \in Ticks, r \in Randoms, failAt \in FailPoints :
         LET res == saveEvent(store, stringStore, lastProcessedId, e, <<t, r>>, failAt)
         IN  /\ failAt # "none" => faults.fail < MaxFailures
             /\ failAt # "none" => WriteIndex(SaveWrites(store, <<>>), failAt) # 0
             /\ store' = res.store
             /\ lastProcessedId' = res.lastProcessedId
             /\ clock' = t
             /\ saved' = IF res.outcome = "id"
                         THEN Append(saved, [e EXCEPT !.id = <<t, r>>]) ELSE saved
             /\ faults' = IF failAt = "none" THEN faults
                          ELSE [faults EXCEPT !.fail = @ + 1]
             /\ stOp' = [name |-> "saveEvent", outcome |-> res.outcome, value |-> res.value,
                         detected |-> FALSE, restored |-> FALSE, pre |-> store,
                         failAt |-> failAt,
                         batch |-> Append(loadRawData(store), [e EXCEPT !.id = <<t, r>>])]
    /\ UNCHANGED <<stringStore, down>>
    /\ UNCHANGED <<psVars, smVars>>

\* db.getAllEvents()
GetAllEvents ==
    /\ ~down
    /\ LET res == getAllEvents(store, stringStore, lastProcessedId)
       IN  /\ store' = res.store
           /\ lastProcessedId' = res.lastProcessedId
           /\ stOp' = [name |-> "getAllEvents", outcome |-> res.outcome, value |-> res.value,
                       detected |-> res.detected, restored |-> res.restored, pre |-> store,
                       failAt |-> "none", batch |-> <<>>]
    /\ UNCHANGED <<stringStore, down, clock, saved, faults>>
    /\ UNCHANGED <<psVars, smVars>>

\* The process stops inside saveEvent after n of its writes (n = 0: before the
\* first); stOp.batch keeps the batch saveEvent was writing.
StopInSaveEvent ==
    /\ ~down
    /\ faults.stop < MaxStops
    /\ Len(saved) + faults.fail + faults.stop < MaxBatch
    /\ \E e \in StoreEvents, t \in Ticks, r \in Randoms :
         LET batch == Append(loadRawData(store), [e EXCEPT !.id = <<t, r>>])
             ws    == SaveWrites(store, batch)
         IN  \E n \in 0..(Len(ws) - 1) :
               /\ store' = ApplyWrites(store, stringStore, ws, n)
               /\ clock' = t
               /\ stOp' = [name |-> "stop", outcome |-> "none", value |-> <<>>,
                           detected |-> FALSE, restored |-> FALSE, pre |-> store,
                           failAt |-> IF n = 0 THEN "none" ELSE ws[n].key,
                           batch |-> batch]
    /\ down' = TRUE
    /\ faults' = [faults EXCEPT !.stop = @ + 1]
    /\ UNCHANGED <<stringStore, lastProcessedId, saved>>
    /\ UNCHANGED <<psVars, smVars>>

\* new SafeLocalStorage(prefix) over the same backend after a stop: the constructor
\* runs _validateIntegrity, that is getAllEvents.  stOp.pre keeps the store as it was
\* before the interrupted saveEvent, stOp.failAt the last write that was made.
Restart ==
    /\ down
    /\ LET res == getAllEvents(store, stringStore, Null)
       IN  /\ store' = res.store
           /\ lastProcessedId' = res.lastProcessedId
           /\ stOp' = [name |-> "restart", outcome |-> res.outcome, value |-> res.value,
                       detected |-> res.detected, restored |-> res.restored,
                       pre |-> stOp.pre, failAt |-> stOp.failAt, batch |-> stOp.batch]
    /\ down' = FALSE
    /\ UNCHANGED <<stringStore, clock, saved, faults>>
    /\ UNCHANGED <<psVars, smVars>>

\* The stored batch is edited behind the store's back, as the storage test does:
\* rawData[0].type = 'HACKED', written back without a new checksum.
TamperEvents ==
    /\ ~down
    /\ faults.tamper < MaxTampers
    /\ loadRawData(store) # <<>>
    /\ loadRawData(store)[1].type # "HACKED"
    /\ store' = [store EXCEPT !["events"] =
                   Some(Str(stringify([loadRawData(store) EXCEPT ![1].type = "HACKED"])))]
    /\ faults' = [faults EXCEPT !.tamper = @ + 1]
    /\ stOp' = [NoOp EXCEPT !.name = "tamper", !.pre = store]
    /\ UNCHANGED <<stringStore, lastProcessedId, down, clock, saved>>
    /\ UNCHANGED <<psVars, smVars>>

\* The stored checksum is replaced by another checksum of the same type: the
\* next number, or the digits of the next number.
NextNumber(n) == IF n[2] + 1 < Half THEN <<n[1], n[2] + 1>> ELSE <<(n[1] + 1) % Half, 0>>

RECURSIVE DigitsNumber(_)
DigitsNumber(digits) ==
    IF digits = <<>> THEN <<0, 0>>
    ELSE LET m   == DigitsNumber(SubSeq(digits, 1, Len(digits) - 1))
             low == m[2] * 10 + (Last(digits) - 48)
         IN  <<(m[1] * 10 + (low \div Half)) % Half, low % Half>>

\* The number a stored checksum item denotes.
ChecksumNumber(item) == IF item.t = "number" THEN item.v ELSE DigitsNumber(item.v)

TamperChecksum ==
    /\ ~down
    /\ faults.tamper < MaxTampers
    /\ Truthy(store["checksum"])
    /\ store' = [store EXCEPT !["checksum"] =
                   Some(IF store["checksum"][1].t = "number"
                        THEN Num(NextNumber(store["checksum"][1].v))
                        ELSE Str(DecimalDigits(NextNumber(ChecksumNumber(store["checksum"][1])))))]
    /\ faults' = [faults EXCEPT !.tamper = @ + 1]
    /\ stOp' = [NoOp EXCEPT !.name = "tamper", !.pre = store]
    /\ UNCHANGED <<stringStore, lastProcessedId, down, clock, saved>>
    /\ UNCHANGED <<psVars, smVars>>

StoreNext ==
    SaveEvent \/ GetAllEvents \/ StopInSaveEvent \/ Restart \/ TamperEvents \/ TamperChecksum

SpecStore == Init /\ [][StoreNext]_vars

\* The batch in the permanent slot, and whether the stored checksum is the
\* checksum of exactly that batch (as a number or as that number's digits).
PermanentBatch(st) == loadRawData(st)

ChecksumMatches(st) ==
    /\ ~IsNull(st["checksum"])
    /\ ChecksumNumber(st["checksum"][1]) = calculateChecksum(loadRawData(st)).v

\* C3: on a string-keeping backend, with no tampering, failed write or stop, once
\* k >= 1 saveEvent calls have succeeded getAllEvents returns exactly those k events
\* in order, detects no corruption and restores nothing.
C3_ReadReturnsWhatWasSaved ==
    (stOp.name = "getAllEvents" /\ stringStore /\ faults = NoFaults /\ Len(saved) >= 1)
        => (stOp.outcome = "ok" /\ stOp.value = saved /\ ~stOp.detected /\ ~stOp.restored)

\* A read that met at least one stored event under a stored checksum that is not
\* the checksum of the stored batch.
ReadOfMismatch ==
    /\ stOp.name = "getAllEvents"
    /\ loadRawData(stOp.pre) # <<>>
    /\ ~IsNull(stOp.pre["checksum"])
    /\ ~ChecksumMatches(stOp.pre)

BackupPairExists(st) == ~IsNull(st["backup"]) /\ ~IsNull(st["backup_checksum"])

\* C4: when the permanent slot holds at least one event and the stored checksum does
\* not match it, getAllEvents returns the backup batch if a backup pair exists and
\* throws the unrecoverable-corruption error if none does; it never returns an
\* empty list.
C4_MismatchNeverReadsEmpty ==
    ReadOfMismatch =>
        \/ /\ BackupPairExists(stOp.pre)
           /\ stOp.outcome = "ok"
           /\ stOp.value = parse(stOp.pre["backup"][1].v)
           /\ stOp.value # <<>>
        \/ /\ ~BackupPairExists(stOp.pre)
           /\ stOp.outcome = "throw"

C4_Witness ==
    /\ ReadOfMismatch
    /\ ~stringStore
    /\ stOp.restored
    /\ Len(stOp.value) >= 1

\* C5: when the staging, checksum or permanent write of saveEvent fails, saveEvent
\* reports failure and the permanent slot and the checksum slot hold what they held
\* before the call, whatever the store held before.
C5_FailedWriteRestoresSlots ==
    (stOp.name = "saveEvent" /\ stOp.failAt \in {"temp", "checksum", "events"})
        => /\ stOp.outcome = "null"
           /\ store["events"] = stOp.pre["events"]
           /\ store["checksum"] = stOp.pre["checksum"]

\* C6: after a stop between two writes of saveEvent (with no tampering and no failed
\* write before it), a new SafeLocalStorage over the same backend starts without
\* error and reads the batch from before the interrupted append or the batch with
\* the new event.
C6_StopLeavesReadableLog ==
    (stOp.name = "restart" /\ faults.tamper = 0 /\ faults.fail = 0)
        => /\ stOp.outcome = "ok"
           /\ stOp.value \in {loadRawData(stOp.pre), stOp.batch}

(***************************************************************************)
(* SpecSession: one user's calls on one SessionManager over one set of     *)
(* engines; a storage write of the call may throw.  Calls are at least a   *)
(* millisecond apart.                                                      *)
(***************************************************************************)
SessionUser == "u1"
SessionNodes == {"module_1_intro", "module_1_quiz", "module_2_excel", "nonexistent_node"}
SessionSubs == {"s1", "s2"}
SessionHints == {0, 5}

\* One right and one wrong answer for each question.
AnswersFor(nodeId) ==
    CASE nodeId = "module_1_quiz" -> {"B", "A"}
      [] nodeId = "module_2_excel" -> {"30.005", "31"}
      [] nodeId = "module_3_python" -> {" def ", "DEF"}
      [] OTHER -> {"A"}

Engines == [store |-> store, lastProcessedId |-> lastProcessedId,
            cachedState |-> cachedState, cachedVersion |-> cachedVersion,
            processed |-> processedSubmissions]

\* await sessionManager.handleLessonCompletion(userId, nodeId, attemptData)
HandleLessonCompletion ==
    /\ smOp.calls < MaxSessionCalls
    /\ \E nodeId \in SessionNodes, sub \in SessionSubs, failAt \in FailPoints :
       \E answer \in AnswersFor(nodeId), hints \in SessionHints :
         LET attemptData == [submissionUuid |-> sub, userAnswer |-> answer,
                             hintsUsed |-> hints]
             env == [now |-> clock + 1, rand |-> 0, failAt |-> failAt]
         IN  \E r \in {handleLessonCompletion(Engines, stringStore, SessionUser, nodeId,
                                              attemptData, env)} :
             \* a write can only fail in a call that writes, and once per run
             /\ failAt # "none" =>
                   /\ faults.fail < MaxFailures
                   /\ sub \notin processedSubmissions
                   /\ ~IsNull(getQuestion(nodeId))
                   /\ WriteIndex(SaveWrites(store, <<>>), failAt) # 0
             \* hints only count towards a correct answer
             /\ (hints # 0 => validateAnswer(nodeId, answer, hints).isCorrect)
             /\ store' = r.sm.store
             /\ lastProcessedId' = r.sm.lastProcessedId
             /\ cachedState' = r.sm.cachedState
             /\ cachedVersion' = r.sm.cachedVersion
             /\ processedSubmissions' = r.sm.processed
             /\ clock' = clock + 1
             /\ faults' = IF failAt = "none" THEN faults ELSE [faults EXCEPT !.fail = @ + 1]
             /\ smOp' = [name |-> "handleLessonCompletion", outcome |-> r.outcome,
                         userId |-> SessionUser, nodeId |-> nodeId,
                         submissionUuid |-> sub, hintsUsed |-> hints, failAt |-> failAt,
                         wasProcessed |-> sub \in processedSubmissions,
                         recorded |-> r.recorded, isCorrect |-> r.isCorrect,
                         scoreAwarded |-> r.scoreAwarded, history |-> r.history,
                         progress |-> Core(r.progress), nextNode |-> r.nextNode,
                         preBatch |-> loadRawData(store),
                         preProcessed |-> processedSubmissions,
                         calls |-> smOp.calls + 1]
    /\ UNCHANGED <<eventHistory, psCalls, psResult>>
    /\ UNCHANGED <<stringStore, down, saved, stOp, isDeveloper, peOp>>

\* await sessionManager.getCurrentProgress(userId)
GetCurrentProgress ==
    /\ smOp.calls < MaxSessionCalls
    /\ smOp.name # "getCurrentProgress"
    /\ \E r \in {getCurrentProgress(Engines, stringStore, SessionUser)} :
           /\ store' = r.sm.store
           /\ lastProcessedId' = r.sm.lastProcessedId
           /\ cachedState' = r.sm.cachedState
           /\ cachedVersion' = r.sm.cachedVersion
           /\ smOp' = [NoCall EXCEPT !.name = "getCurrentProgress", !.outcome = r.outcome,
                          !.userId = SessionUser, !.history = r.history,
                          !.progress = Core(r.progress), !.nextNode = r.nextNode,
                          !.preBatch = loadRawData(store),
                          !.preProcessed = processedSubmissions,
                          !.calls = smOp.calls + 1]
    /\ UNCHANGED <<eventHistory, psCalls, psResult>>
    /\ UNCHANGED <<stringStore, down, clock, saved, faults, stOp>>
    /\ UNCHANGED <<processedSubmissions, isDeveloper, peOp>>

SessionNext == HandleLessonCompletion \/ GetCurrentProgress

SpecSession == Init /\ [][SessionNext]_vars

\* The events of the log that carry a submission id.
EventsOfSubmission(batch, submissionUuid) ==
    {i \in 1..Len(batch) : batch[i].submissionUuid = submissionUuid}

\* The sum of scoreAwarded over the correct attempts of a history.
RECURSIVE SumScoreAwarded(_)
SumScoreAwarded(history) ==
    IF history = <<>> THEN 0
    ELSE SumScoreAwarded(Tail(history))
         + (IF Head(history).type = "QUIZ_ATTEMPT" /\ Head(history).isCorrect
            THEN Head(history).scoreAwarded ELSE 0)

CalledHandleLessonCompletion == smOp.name = "handleLessonCompletion"

\* C2: a handleLessonCompletion call that carries an already-processed
\* submissionUuid fails with DUPLICATE_SUBMISSION and appends nothing: the log
\* holds exactly one event of that submission id, and the XP derived from the
\* log is what it was before the call.
C2_DuplicateRecordsExactlyOne ==
    (CalledHandleLessonCompletion /\ smOp.wasProcessed)
        => /\ smOp.outcome = "DUPLICATE_SUBMISSION"
           /\ loadRawData(store) = smOp.preBatch
           /\ Cardinality(EventsOfSubmission(loadRawData(store), smOp.submissionUuid)) = 1
           /\ SumScoreAwarded(loadRawData(store)) = SumScoreAwarded(smOp.preBatch)

\* C7: when recordEvent did not persist the attempt event (it returned null, or
\* the write threw), handleLessonCompletion does not return success: true.
C7_UnrecordedAttemptIsNotSuccess ==
    (CalledHandleLessonCompletion /\ smOp.recorded \in {"null", "throw"})
        => smOp.outcome # "success"

\* C8: the progressUpdate of a successful handleLessonCompletion call is the
\* state derived from the user's whole recorded history, the event just
\* recorded included: its xp is the sum of scoreAwarded over the correct
\* attempts so far.
C8_ProgressUpdateIsWholeHistory ==
    (CalledHandleLessonCompletion /\ smOp.outcome = "success" /\ smOp.recorded = "id")
        => /\ smOp.history # <<>>
           /\ Last(smOp.history).submissionUuid = smOp.submissionUuid
           /\ smOp.progress = Core(FreshUserState(smOp.history))
           /\ smOp.progress.xp = SumScoreAwarded(smOp.history)

\* C9: a handleLessonCompletion call whose submission id was already processed,
\* or whose node has no question (or does not exist), fails at steps 1-2,
\* appends no event and leaves the set of processed submission ids as it was.
C9_FailFastLeavesNoTrace ==
    (CalledHandleLessonCompletion
        /\ (smOp.wasProcessed \/ IsNull(getQuestion(smOp.nodeId))))
        => /\ smOp.outcome \in {"DUPLICATE_SUBMISSION", "NO_QUESTION", "UNKNOWN_QUESTION_TYPE"}
           /\ loadRawData(store) = smOp.preBatch
           /\ processedSubmissions = smOp.preProcessed

\* A duplicate submission refused when the log already holds events.
C9_Witness ==
    /\ CalledHandleLessonCompletion
    /\ smOp.wasProcessed
    /\ smOp.outcome = "DUPLICATE_SUBMISSION"
    /\ smOp.preBatch # <<>>
    /\ processedSubmissions = smOp.preProcessed

(***************************************************************************)
(* SpecVisual: events are appended to one user's history, and the map      *)
(* shows every node in the visual state that getVisualState gives for the  *)
(* state derived from the history.  The tree is RESKILLING_TREE and the    *)
(* node with two prerequisites that phase3A.test.js adds to it.            *)
(***************************************************************************)
VisualTree ==
    Append(RESKILLING_TREE,
           [id |-> "test_far_node", prerequisites |-> <<"module_1_quiz", "module_2_excel">>,
            hasQuestion |-> FALSE, question |-> NoQuestion])

VisualNodeIds == {VisualTree[i].id : i \in 1..Len(VisualTree)} \cup {"nonexistent_node"}

AttemptNodes == {"module_1_intro", "module_1_quiz", "module_2_excel", "test_far_node"}

\* The events a history can grow by: an attempt on a node, right or wrong, or a
\* completed video.
VisualEvents(n) ==
    {MkEvent(<<n, 0>>, SessionUser, "QUIZ_ATTEMPT", nodeId, isCorrect,
             IF isCorrect THEN BaseScore ELSE 0, 0, "s0", n) :
        nodeId \in AttemptNodes, isCorrect \in BOOLEAN}
    \cup {MkEvent(<<n, 0>>, SessionUser, "VIDEO_COMPLETE", "module_1_intro", FALSE,
                  0, 0, "s0", n)}

\* The part of getCurrentProgress's result that the map reads.
VisualUserState(userHistory) ==
    [completedNodes |-> getCompletedNodes(userHistory),
     attemptedNodes |-> getAttemptedNodes(userHistory)]

VisualStateOf(nodeId, userHistory) ==
    getVisualState(VisualTree, nodeId, VisualUserState(userHistory))

\* One more event in the user's history.
AppendEvent ==
    /\ Len(eventHistory) < MaxVisualHistory
    /\ \E event \in VisualEvents(Len(eventHistory) + 1) :
          eventHistory' = Append(eventHistory, event)
    /\ UNCHANGED <<cachedState, cachedVersion, psCalls, psResult>>
    /\ UNCHANGED <<storeVars, smVars>>

VisualNext == AppendEvent

SpecVisual == Init /\ [][VisualNext]_vars

Rank(visualState) ==
    CASE visualState = "LOCKED_FAR" -> 1
      [] visualState = "LOCKED_NEAR" -> 2
      [] visualState = "UNLOCKED_NEW" -> 3
      [] visualState = "IN_PROGRESS" -> 4
      [] visualState = "COMPLETED" -> 5

ReplayNodes == {"n1", "n2"}
ReplayScores == {0, 8, 100}

ReplayEvents ==
    { MkEvent(<<Len(eventHistory) + 1, 0>>, "u1", "QUIZ_ATTEMPT", n, c, sc, 0, "s0", ts) :
        n \in ReplayNodes, c \in BOOLEAN, sc \in ReplayScores,
        ts \in 1..MaxReplayTimestamp }
    \cup
    { MkEvent(<<Len(eventHistory) + 1, 0>>, "u1", ty, "n1", FALSE, 0, 0, "s0", ts) :
        ty \in {"VIDEO_COMPLETE", "LOGIN"}, ts \in 1..MaxReplayTimestamp }

\* The caller appends one event to its history.
AppendReplayEvent ==
    /\ Len(eventHistory) < MaxReplayHistory
    /\ \E e \in ReplayEvents : eventHistory' = Append(eventHistory, e)
    /\ UNCHANGED <<cachedState, cachedVersion, psCalls, psResult>>
    /\ UNCHANGED <<storeVars, smVars>>

\* new ProgressService().calculateUserState(eventHistory), full-replay revision.
Replay ==
    /\ psResult' = Some(replayCalculateUserState(eventHistory))
    /\ psCalls' = <<eventHistory>>
    /\ cachedState' = Null
    /\ cachedVersion' = Null
    /\ UNCHANGED eventHistory
    /\ UNCHANGED <<storeVars, smVars>>

\* new ProgressService().calculateUserState(eventHistory), caching revision.
DeriveOnNewInstance ==
    /\ \E r \in {calculateUserState(Null, Null, eventHistory)} :
          /\ psResult' = Some(r.result)
          /\ cachedState' = r.cachedState
          /\ cachedVersion' = r.cachedVersion
          /\ eventHistory' = r.history
    /\ psCalls' = <<eventHistory>>
    /\ UNCHANGED <<storeVars, smVars>>

ReplayNext == AppendReplayEvent \/ Replay \/ DeriveOnNewInstance

SpecReplay == Init /\ [][ReplayNext]_vars

\* What one event adds to xp: scoreAwarded (10 when there is none) for a correct
\* attempt, 5 for a completed video, nothing otherwise.
XpShare(event) ==
    IF event.type = "QUIZ_ATTEMPT" /\ event.isCorrect
    THEN (IF event.scoreAwarded # 0 THEN event.scoreAwarded ELSE 10)
    ELSE IF event.type = "VIDEO_COMPLETE" THEN 5 ELSE 0

RECURSIVE SumXpShares(_)
SumXpShares(history) ==
    IF history = <<>> THEN 0 ELSE XpShare(Head(history)) + SumXpShares(Tail(history))

\* state.level, or null where the state has no such field.
LevelOf(state) == IF "level" \in DOMAIN state THEN Some(state.level) ELSE Null

Derived == psResult # Null /\ Len(psCalls) = 1

\* C11: calculateUserState(H).xp is the sum of scoreAwarded (10 when there is
\* none) over the correct QUIZ_ATTEMPT events of H plus 5 for each
\* VIDEO_COMPLETE; the empty history gives xp 0, streak 0, no completed nodes
\* and level 1.
C11_XpIsSumOfScores ==
    Derived =>
        /\ psResult[1].xp = SumXpShares(psCalls[1])
        /\ psCalls[1] = <<>> =>
              /\ psResult[1].xp = 0
              /\ psResult[1].streak = 0
              /\ psResult[1].completedNodes = <<>>
              /\ LevelOf(psResult[1]) = Some(1)

\* The last call was made on the full-replay revision (its states carry a level).
Replayed == Derived /\ LevelOf(psResult[1]) # Null

IsAttempt(event, isCorrect) == event.type = "QUIZ_ATTEMPT" /\ event.isCorrect = isCorrect

IsCompletion(event) == IsAttempt(event, TRUE) \/ event.type = "VIDEO_COMPLETE"

\* The position of the last wrong attempt in a sequence, 0 if there is none.
LastIncorrect(events) ==
    LET wrong == {i \in 1..Len(events) : IsAttempt(events[i], FALSE)}
    IN  IF wrong = {} THEN 0 ELSE CHOOSE i \in wrong : \A j \in wrong : j <= i

\* The number of correct attempts after the last wrong one.
CorrectSinceLastIncorrect(events) ==
    Cardinality({i \in (LastIncorrect(events) + 1)..Len(events) :
                    IsAttempt(events[i], TRUE)})

Front(events) == SubSeq(events, 1, Len(events) - 1)

\* C12: calculateUserState(H).streak is the number of correct QUIZ_ATTEMPT events
\* after the last incorrect one in timestamp order; the last event in that
\* order, if a wrong attempt, leaves streak 0 and xp as it was before it, if a
\* correct one adds 1, and otherwise leaves the streak as it was.
C12_StreakCountsSinceLastIncorrect ==
    Replayed =>
        LET sorted == SortByTimestamp(psCalls[1])
            before == replayCalculateUserState(Front(sorted))
            after  == psResult[1]
        IN  /\ after.streak = CorrectSinceLastIncorrect(sorted)
            /\ sorted # <<>> =>
                  /\ IsAttempt(Last(sorted), FALSE) =>
                        (after.streak = 0 /\ after.xp = before.xp)
                  /\ IsAttempt(Last(sorted), TRUE) => after.streak = before.streak + 1
                  /\ Last(sorted).type # "QUIZ_ATTEMPT" => after.streak = before.streak

\* A streak broken and begun again, in a history that is not in timestamp order.
C12_Witness ==
    /\ Replayed
    /\ Len(psCalls[1]) = 3
    /\ SortByTimestamp(psCalls[1]) # psCalls[1]
    /\ LastIncorrect(SortByTimestamp(psCalls[1])) = 2
    /\ IsAttempt(SortByTimestamp(psCalls[1])[1], TRUE)
    /\ psResult[1].streak = 1

\* The node ids that have a correct attempt or a completed video in a history.
CompletedIds(history) ==
    {history[i].nodeId : i \in {j \in 1..Len(history) : IsCompletion(history[j])}}

Occurrences(nodes, n) == Cardinality({i \in 1..Len(nodes) : nodes[i] = n})

\* C13: calculateUserState(H).completedNodes holds each node id at most once and
\* holds exactly the node ids with a correct QUIZ_ATTEMPT or a VIDEO_COMPLETE in
\* H; a further completion of a node already completed leaves it as it was.
C13_CompletedNodesIsTheSet ==
    Replayed =>
        LET sorted    == SortByTimestamp(psCalls[1])
            completed == psResult[1].completedNodes
        IN  /\ \A i \in 1..Len(completed) : Occurrences(completed, completed[i]) = 1
            /\ {completed[i] : i \in 1..Len(completed)} = CompletedIds(psCalls[1])
            /\ (sorted # <<>> /\ IsCompletion(Last(sorted))
                   /\ Last(sorted).nodeId \in CompletedIds(Front(sorted)))
                  => completed = replayCalculateUserState(Front(sorted)).completedNodes

\* A node completed by a video and again by a correct attempt, and a second one.
C13_Witness ==
    /\ Replayed
    /\ Len(psCalls[1]) = 3
    /\ psCalls[1][1].type = "VIDEO_COMPLETE"
    /\ IsAttempt(psCalls[1][2], TRUE) /\ psCalls[1][2].nodeId = "n1"
    /\ IsAttempt(psCalls[1][3], TRUE) /\ psCalls[1][3].nodeId = "n2"
    /\ Len(psResult[1].completedNodes) = 2

AttemptedOn(history, nodeId, isCorrect) ==
    \E i \in 1..Len(history) :
        IsAttempt(history[i], isCorrect) /\ history[i].nodeId = nodeId

PolicyIds == <<"module_1_intro", "module_1_quiz", "module_2_excel", "nonexistent_node">>

PolicyAttemptedIds == <<"module_1_quiz", "test_far_node">>

\* The arrays over a list of ids, in the list's order.
ArraysOver(ids) ==
    {LET Chosen(x) == x \in chosen IN SelectSeq(ids, Chosen) :
        chosen \in SUBSET {ids[i] : i \in 1..Len(ids)}}

PolicyUserStates ==
    [completedNodes : ArraysOver(PolicyIds), attemptedNodes : ArraysOver(PolicyAttemptedIds)]

\* policyEngine.configure({ isDeveloper }) or configure({})
Configure ==
    /\ \E profile \in {Null, Some(TRUE), Some(FALSE)} :
          /\ isDeveloper' = configure(profile)
          /\ peOp' = [NoPolicyCall EXCEPT !.name = "configure",
                                          !.configured = Some(profile)]
    /\ UNCHANGED <<psVars, storeVars>>
    /\ UNCHANGED <<processedSubmissions, smOp>>

\* policyEngine.canAccessNode(nodeId, userState)
CanAccessNode ==
    /\ \E nodeId \in VisualNodeIds, userState \in PolicyUserStates :
          /\ userState.attemptedNodes = <<>>
          /\ \E r \in {canAccessNode(VisualTree, isDeveloper, nodeId, userState)} :
                peOp' = [name |-> "canAccessNode", developer |-> isDeveloper,
                         nodeId |-> nodeId,
                         userState |-> userState, allowed |-> r.allowed,
                         reason |-> r.reason, visualState |-> "",
                         configured |-> peOp.configured]
    /\ UNCHANGED <<psVars, storeVars>>
    /\ UNCHANGED <<processedSubmissions, isDeveloper, smOp>>

\* policyEngine.getVisualState(nodeId, userState)
GetVisualState ==
    /\ \E nodeId \in VisualNodeIds, userState \in PolicyUserStates :
          peOp' = [name |-> "getVisualState", developer |-> isDeveloper,
                   nodeId |-> nodeId,
                   userState |-> userState, allowed |-> FALSE, reason |-> "",
                   visualState |-> getVisualState(VisualTree, nodeId, userState),
                   configured |-> peOp.configured]
    /\ UNCHANGED <<psVars, storeVars>>
    /\ UNCHANGED <<processedSubmissions, isDeveloper, smOp>>

PolicyNext == Configure \/ CanAccessNode \/ GetVisualState

SpecPolicy == Init /\ [][PolicyNext]_vars

\* The static tree's entry for a node id, as a set: empty if there is none.
TreeEntries(nodeId) == {i \in 1..Len(VisualTree) : VisualTree[i].id = nodeId}

AsSet(array) == {array[i] : i \in 1..Len(array)}

\* The prerequisites of a node of the tree that are not in an array of node ids.
UnmetPrerequisites(nodeId, completedNodes) ==
    UNION {AsSet(VisualTree[i].prerequisites) : i \in TreeEntries(nodeId)}
        \ AsSet(completedNodes)

\* C15: with the developer flag off, canAccessNode(n, s) is not allowed with
\* NODE_NOT_FOUND when n is not in the tree, allowed with PREREQS_MET when every
\* prerequisite of n is in s.completedNodes, and not allowed with
\* LOCKED_PREREQ_MISSING otherwise; with the flag on it is allowed with
\* DEV_OVERRIDE for every node id and user state.
C15_CanAccessNodeDecision ==
    peOp.name = "canAccessNode" =>
        LET decision == <<peOp.allowed, peOp.reason>>
            unmet    == UnmetPrerequisites(peOp.nodeId, peOp.userState.completedNodes)
        IN  IF peOp.developer THEN decision = <<TRUE, "DEV_OVERRIDE">>
            ELSE IF TreeEntries(peOp.nodeId) = {} THEN decision = <<FALSE, "NODE_NOT_FOUND">>
            ELSE IF unmet = {} THEN decision = <<TRUE, "PREREQS_MET">>
            ELSE decision = <<FALSE, "LOCKED_PREREQ_MISSING">>

\* The developer flag, set at runtime, lets a node through that is not in the tree.
C15_Witness ==
    /\ peOp.name = "canAccessNode"
    /\ peOp.developer
    /\ peOp.nodeId = "nonexistent_node"
    /\ peOp.allowed
    /\ peOp.reason = "DEV_OVERRIDE"

RecordPayloads(type) ==
    IF type = "VIDEO_COMPLETE"
    THEN {[nodeId |-> "module_1_intro", isCorrect |-> FALSE, scoreAwarded |-> 0,
           xpEarned |-> 0, submissionUuid |-> "s0"]}
    ELSE {[nodeId |-> "module_1_quiz", isCorrect |-> TRUE, scoreAwarded |-> BaseScore,
           xpEarned |-> 0, submissionUuid |-> "s0"]}

RecordInputs ==
    UNION {{[userId |-> u, type |-> ty, payload |-> pl] :
                u \in {"u1", "u2"}, pl \in RecordPayloads(ty)} :
            ty \in {"QUIZ_ATTEMPT", "VIDEO_COMPLETE"}}
    \cup {[userId |-> "", type |-> "QUIZ_ATTEMPT", payload |-> pl] :
            pl \in RecordPayloads("VIDEO_COMPLETE")}
    \cup {[userId |-> "u1", type |-> "", payload |-> pl] :
            pl \in RecordPayloads("VIDEO_COMPLETE")}

\* manager.recordEvent(userId, type, payload)
RecordEvent ==
    /\ Len(saved) + faults.fail < MaxBatch
    /\ \E input \in RecordInputs, failAt \in FailPoints :
       \E r \in {recordEvent(store, stringStore, lastProcessedId, input.userId, input.type,
                             input.payload, clock + 1, <<clock + 1, 0>>, failAt)} :
          /\ failAt # "none" =>
                /\ faults.fail < MaxFailures
                /\ input.userId # "" /\ input.type # ""
                /\ WriteIndex(SaveWrites(store, <<>>), failAt) # 0
          /\ store' = r.store
          /\ lastProcessedId' = r.lastProcessedId
          /\ clock' = IF input.userId # "" /\ input.type # "" THEN clock + 1 ELSE clock
          /\ saved' = IF r.outcome = "id"
                      THEN Append(saved,
                                  MkEvent(<<clock + 1, 0>>, input.userId, input.type,
                                          input.payload.nodeId, input.payload.isCorrect,
                                          input.payload.scoreAwarded, input.payload.xpEarned,
                                          input.payload.submissionUuid, clock + 1))
                      ELSE saved
          /\ faults' = IF failAt = "none" THEN faults ELSE [faults EXCEPT !.fail = @ + 1]
          /\ stOp' = [name |-> "recordEvent", outcome |-> r.outcome, value |-> r.value,
                      detected |-> FALSE, restored |-> FALSE, pre |-> store,
                      failAt |-> failAt, batch |-> <<>>,
                      userId |-> input.userId, type |-> input.type,
                      payload |-> input.payload, now |-> clock + 1,
                      post |-> r.store]
    /\ UNCHANGED <<stringStore, down>>
    /\ UNCHANGED <<psVars, smVars>>

\* manager.getUserHistory(userId)
GetUserHistory ==
    /\ \E userId \in {"u1", "u2"} :
       \E r \in {getUserHistory(store, stringStore, lastProcessedId, userId)} :
          /\ store' = r.store
          /\ lastProcessedId' = r.lastProcessedId
          /\ stOp' = [name |-> "getUserHistory", outcome |-> r.outcome, value |-> r.value,
                      detected |-> r.detected, restored |-> r.restored, pre |-> store,
                      failAt |-> "none", batch |-> <<>>, userId |-> userId]
    /\ UNCHANGED <<stringStore, down, clock, saved, faults>>
    /\ UNCHANGED <<psVars, smVars>>

\* The ids a caller may ask about: none, one that was never assigned, and the
\* ids of the stored events.
SinceIds ==
    {Null, Some(<<0, 0>>)}
        \cup {Some(loadRawData(store)[i].id) : i \in 1..Len(loadRawData(store))}

\* db.getNewEventsSince(lastProcessedId)
GetNewEventsSince ==
    /\ \E lastId \in SinceIds :
          stOp' = [name |-> "getNewEventsSince", outcome |-> "ok",
                   value |-> getNewEventsSince(store, lastId),
                   detected |-> FALSE, restored |-> FALSE, pre |-> store,
                   failAt |-> "none", batch |-> <<>>, lastId |-> lastId]
    /\ UNCHANGED <<store, stringStore, lastProcessedId, down, clock, saved, faults>>
    /\ UNCHANGED <<psVars, smVars>>

EventsNext == RecordEvent \/ GetUserHistory \/ GetNewEventsSince \/ GetCurrentProgress

SpecEvents == Init /\ [][EventsNext]_vars

\* The first node of the skill tree that is not in a set of completed node ids
\* and whose prerequisites all are: <<>> if there is none.
FirstOpenNode(completed) ==
    LET open == {i \in 1..Len(RESKILLING_TREE) :
                    /\ RESKILLING_TREE[i].id \notin completed
                    /\ AsSet(RESKILLING_TREE[i].prerequisites) \subseteq completed}
    IN  IF open = {} THEN Null
        ELSE Some(RESKILLING_TREE[CHOOSE i \in open : \A j \in open : i <= j].id)

\* C17: the nextNode of handleLessonCompletion and the currentNode of
\* getCurrentProgress is the first node in skill-tree order that the user has not
\* completed and whose prerequisites the user has completed, null exactly when
\* there is none; completed are the nodes with a correct QUIZ_ATTEMPT or a
\* VIDEO_COMPLETE in the user's history, and the node just answered correctly.
C17_NextNodeIsFirstOpenNode ==
    (smOp.name \in {"handleLessonCompletion", "getCurrentProgress"}
        /\ smOp.outcome = "success")
        => smOp.nextNode =
              FirstOpenNode(CompletedIds(smOp.history)
                               \cup (IF smOp.isCorrect THEN {smOp.nodeId} ELSE {}))

CalledRecordEvent == stOp.name = "recordEvent"

InputMissing == stOp.userId = "" \/ stOp.type = ""

\* The event a call of recordEvent is to append, with the id it returned.
RecordedEvent ==
    MkEvent(stOp.value[1], stOp.userId, stOp.type, stOp.payload.nodeId,
            stOp.payload.isCorrect, stOp.payload.scoreAwarded, stOp.payload.xpEarned,
            stOp.payload.submissionUuid, stOp.now)

RejectedUnchanged ==
    /\ stOp.outcome = "null"
    /\ stOp.post = stOp.pre

AppendedOne ==
    /\ stOp.outcome = "id"
    /\ ~IsNull(stOp.value)
    /\ loadRawData(stOp.post) = Append(loadRawData(stOp.pre), RecordedEvent)

\* C18: recordEvent with a userId or type missing or empty fails and leaves the
\* event log unchanged; with both present it appends exactly one event with that
\* userId, type and payload and a timestamp, and returns the id the store gave it.
C18_RecordEventValidates ==
    CalledRecordEvent => IF InputMissing THEN RejectedUnchanged ELSE AppendedOne

\* C18, amended: the same, where every storage write of the call succeeds; where
\* one throws, recordEvent returns null or throws and the stored events are those
\* from before the call.
C18_RecordEventValidatesUnlessWriteFails ==
    CalledRecordEvent =>
        IF InputMissing THEN RejectedUnchanged
        ELSE IF stOp.failAt = "none" THEN AppendedOne
        ELSE /\ stOp.outcome \in {"null", "throw"}
             /\ loadRawData(stOp.post) = loadRawData(stOp.pre)

\* A second user's event appended to a log that holds the first user's, and a
\* call without a userId that changed nothing.
C18_Witness ==
    /\ CalledRecordEvent
    /\ ~InputMissing
    /\ stOp.userId = "u2"
    /\ stOp.failAt = "none"
    /\ Len(loadRawData(stOp.pre)) = 2
    /\ loadRawData(stOp.pre)[1].userId = "u1"
    /\ AppendedOne

\* C19: getUserHistory(u) returns the events of the committed log whose userId is
\* u, in insertion order, and no other user's event.
C19_UserHistoryIsTheUsersEvents ==
    stOp.name = "getUserHistory" =>
        LET Mine(e) == e.userId = stOp.userId
        IN  /\ stOp.outcome = "ok"
            /\ stOp.value = SelectSeq(saved, Mine)

\* C20: getNewEventsSince(id) returns the events stored after the event with that
\* id, in order, when the id is in the log, and the full batch when the id is
\* absent or not found; the events up to and including id followed by the
\* returned ones are the full log.
C20_NewEventsSinceIsTheRest ==
    stOp.name = "getNewEventsSince" =>
        LET all   == loadRawData(stOp.pre)
            found == {i \in 1..Len(all) : ~IsNull(stOp.lastId) /\ all[i].id = stOp.lastId[1]}
        IN  IF found = {} THEN stOp.value = all
            ELSE \E i \in found :
                    /\ stOp.value = SubSeq(all, i + 1, Len(all))
                    /\ SubSeq(all, 1, i) \o stOp.value = all

\* The first of three stored events asked about: the other two come back.
C20_Witness ==
    /\ stOp.name = "getNewEventsSince"
    /\ Len(loadRawData(stOp.pre)) = 3
    /\ stOp.lastId = Some(loadRawData(stOp.pre)[1].id)
    /\ Len(stOp.value) = 2
    /\ stOp.value[2] = loadRawData(stOp.pre)[3]

(***************************************************************************)
(* The committed batch and its checksum across saveEvent and getAllEvents  *)
(* (SpecStore).                                                            *)
(***************************************************************************)
CalledSaveEvent == stOp.name = "saveEvent"

\* C21: the committed batch after a saveEvent call, succeeding or failing, is the
\* batch from before the call or that batch with the one new event at its end:
\* no event once committed is changed, moved or dropped by saveEvent.
C21_SaveEventKeepsCommittedEvents ==
    CalledSaveEvent =>
        \/ loadRawData(store) = loadRawData(stOp.pre)
        \/ /\ stOp.outcome = "id"
           /\ loadRawData(store) = stOp.batch
           /\ Front(stOp.batch) = loadRawData(stOp.pre)

\* A third append whose staging write throws over a log of two events with a
\* backup of the first: the two events are still there.
C21_Witness ==
    /\ CalledSaveEvent
    /\ stOp.failAt = "temp"
    /\ stOp.outcome = "null"
    /\ Len(loadRawData(stOp.pre)) = 2
    /\ BackupUsable(stOp.pre)
    /\ Len(parse(stOp.pre["backup"][1].v)) = 1
    /\ loadRawData(store) = loadRawData(stOp.pre)

\* C22: after every completed saveEvent or getAllEvents call (with no tampering
\* and no stop), the permanent slot and the checksum slot are both empty or the
\* checksum slot holds the checksum of the batch in the permanent slot.
C22_BatchPairedWithChecksum ==
    (stOp.name \in {"saveEvent", "getAllEvents"} /\ faults.tamper = 0 /\ faults.stop = 0)
        => \/ IsNull(store["events"]) /\ IsNull(store["checksum"])
           \/ ~IsNull(store["events"]) /\ ChecksumMatches(store)

\* C26: saveEvent returns an id only if the permanent batch then ends with the
\* event of that id and the stored checksum is the checksum of the batch; when
\* it reports failure (null or an exception) the new event was not added.
C26_IdOnlyIfCommitted ==
    CalledSaveEvent =>
        IF stOp.outcome = "id"
        THEN /\ loadRawData(store) # <<>>
             /\ Last(loadRawData(store)) = Last(stOp.batch)
             /\ Last(loadRawData(store)).id = stOp.value[1]
             /\ ChecksumMatches(store)
        ELSE /\ stOp.outcome \in {"null", "throw"}
             /\ loadRawData(store) = loadRawData(stOp.pre)

\* The checksum write of an append to a non-empty log throws: null is returned
\* and the log is the one from before.
C26_Witness ==
    /\ CalledSaveEvent
    /\ stOp.failAt = "checksum"
    /\ stOp.outcome = "null"
    /\ loadRawData(stOp.pre) # <<>>
    /\ loadRawData(store) = loadRawData(stOp.pre)

\* The state after a getAllEvents call that met a mismatch and installed the backup.
RestoringRead == stOp.name = "getAllEvents" /\ stOp.restored

\* C23: when getAllEvents detects a mismatch and restores, the backup batch and
\* backup checksum become the permanent batch and checksum and the restored
\* batch is returned; a getAllEvents call made right after it returns the same
\* batch and detects no corruption.
C23_RestoreIsSelfHealing ==
    [][RestoringRead =>
          /\ store["events"] = stOp.pre["backup"]
          /\ store["checksum"] = stOp.pre["backup_checksum"]
          /\ stOp.outcome = "ok"
          /\ stOp.value = loadRawData(store)
          /\ (stOp'.name = "getAllEvents" /\ stOp' # stOp)
                => (stOp'.outcome = "ok" /\ stOp'.value = stOp.value /\ ~stOp'.detected)]_vars

\* The backup checksum is the checksum of the backup batch.
BackupPairMatches(st) ==
    /\ BackupPairExists(st)
    /\ ChecksumNumber(st["backup_checksum"][1]) = calculateChecksum(parse(st["backup"][1].v)).v

\* C24: when getAllEvents detects a mismatch and the backup pair is absent or
\* the backup batch does not match the backup checksum, it throws the
\* unrecoverable-corruption error and leaves the slots as they were: the backup
\* batch is neither installed nor returned.
C24_BadBackupIsNotInstalled ==
    (stOp.name = "getAllEvents" /\ stOp.detected /\ ~BackupPairMatches(stOp.pre))
        => /\ stOp.outcome = "throw"
           /\ store = stOp.pre

(***************************************************************************)
(* configure on one PolicyEngine (SpecPolicy).                             *)
(***************************************************************************)
\* The flag the most recent configure call asked for: false before any call
\* and for a profile without the field.
ConfiguredFlag ==
    IF IsNull(peOp.configured) \/ IsNull(peOp.configured[1]) THEN FALSE
    ELSE peOp.configured[1][1]

\* C25: after any sequence of configure calls isDeveloper is the isDeveloper of
\* the most recent call, false when that call omitted it and false before any
\* call, and a later canAccessNode call decides with that flag.
C25_ConfigureSetsTheFlag ==
    /\ isDeveloper = ConfiguredFlag
    /\ peOp.name = "canAccessNode" =>
          /\ peOp.developer = ConfiguredFlag
          /\ (peOp.reason = "DEV_OVERRIDE") = ConfiguredFlag

\* configure({isDeveloper: true}) and then a locked node let through.
C25_Witness ==
    /\ peOp.name = "canAccessNode"
    /\ peOp.configured = Some(Some(TRUE))
    /\ peOp.nodeId = "module_2_excel"
    /\ peOp.userState.completedNodes = <<>>
    /\ peOp.allowed
    /\ peOp.reason = "DEV_OVERRIDE"

(***************************************************************************)
(* What handleLessonCompletion marks, records and takes for completed.     *)
(***************************************************************************)
\* C27: after a handleLessonCompletion call in which recordEvent returned null
\* the submission id is not in the processed set, so a retry with the same id
\* is not refused as a duplicate.
C27_ProcessedOnlyIfRecorded ==
    (CalledHandleLessonCompletion /\ smOp.recorded = "null")
        => /\ smOp.submissionUuid \notin processedSubmissions
           /\ ~isDuplicateSubmission(processedSubmissions, smOp.submissionUuid)

\* C28: the completed nodes getCurrentProgress computes from a user's history
\* (_getCompletedNodes) are the completedNodes ProgressService derives from the
\* same history, VIDEO_COMPLETE events included.
C28_CompletedNodesAgree ==
    (smOp.name = "getCurrentProgress" /\ smOp.outcome = "success")
        => AsSet(smOp.progress.completedNodes)
              = AsSet(replayCalculateUserState(smOp.history).completedNodes)

\* The prerequisites of a node of the skill tree, as a set.
PrerequisitesOf(nodeId) ==
    IF IsNull(getNode(nodeId)) THEN {} ELSE AsSet(getNode(nodeId)[1].prerequisites)

\* C30: with override mode off, handleLessonCompletion records an attempt only
\* for a node whose prerequisites were all completed before the call, and the
\* set of completed nodes of the log is closed under prerequisites.
C30_AttemptsOnlyOnUnlockedNodes ==
    /\ (CalledHandleLessonCompletion /\ smOp.recorded = "id" /\ ~isDeveloper)
          => PrerequisitesOf(smOp.nodeId) \subseteq CompletedIds(smOp.preBatch)
    /\ ~isDeveloper =>
          \A n \in CompletedIds(loadRawData(store)) :
             PrerequisitesOf(n) \subseteq CompletedIds(loadRawData(store))

(***************************************************************************)
(* SpecJourney: a learner in student mode, starting from an empty log, who *)
(* asks for the current node and submits a correct answer to it through    *)
(* handleLessonCompletion, again and again.                                *)
(***************************************************************************)
\* The node the learner was last offered: the currentNode or nextNode of the
\* last call that succeeded.
Offered == IF smOp.outcome = "success" THEN smOp.nextNode ELSE Null

JourneySubs == {SubTable[i] : i \in 1..Len(SubTable)}

JourneyHints == 0..MaxJourneyHints

\* The answers that are correct for a node; a node without a question has no
\* wrong answer, so any answer is submitted.
CorrectAnswersFor(nodeId) ==
    IF IsNull(getQuestion(nodeId)) THEN Answers
    ELSE {a \in Answers : validateAnswer(nodeId, a, 0).isCorrect}

\* await sessionManager.getCurrentProgress(userId), after a call that offered
\* nothing.
OpenLesson ==
    /\ IsNull(Offered)
    /\ ~(smOp.name = "getCurrentProgress" /\ smOp.outcome = "success")
    /\ \E r \in {getCurrentProgress(Engines, stringStore, SessionUser)} :
           /\ store' = r.sm.store
           /\ lastProcessedId' = r.sm.lastProcessedId
           /\ cachedState' = r.sm.cachedState
           /\ cachedVersion' = r.sm.cachedVersion
           /\ smOp' = [NoCall EXCEPT !.name = "getCurrentProgress", !.outcome = r.outcome,
                          !.userId = SessionUser, !.history = r.history,
                          !.progress = Core(r.progress), !.nextNode = r.nextNode,
                          !.preBatch = loadRawData(store),
                          !.preProcessed = processedSubmissions]
    /\ UNCHANGED <<eventHistory, psCalls, psResult>>
    /\ UNCHANGED <<stringStore, down, clock, saved, faults, stOp>>
    /\ UNCHANGED <<processedSubmissions, isDeveloper, peOp>>

\* await sessionManager.handleLessonCompletion(userId, offered node, a correct
\* answer), every storage write succeeding.
SubmitCorrectAnswer ==
    /\ ~IsNull(Offered)
    /\ ~isDeveloper
    /\ \E sub \in JourneySubs \ processedSubmissions, hints \in JourneyHints :
       \E answer \in CorrectAnswersFor(Offered[1]) :
         LET attemptData == [submissionUuid |-> sub, userAnswer |-> answer,
                             hintsUsed |-> hints]
             env == [now |-> clock + 1, rand |-> 0, failAt |-> "none"]
         IN  \E r \in {handleLessonCompletion(Engines, stringStore, SessionUser,
                                              Offered[1], attemptData, env)} :
             /\ store' = r.sm.store
             /\ lastProcessedId' = r.sm.lastProcessedId
             /\ cachedState' = r.sm.cachedState
             /\ cachedVersion' = r.sm.cachedVersion
             /\ processedSubmissions' = r.sm.processed
             /\ clock' = IF r.recorded = "id" THEN clock + 1 ELSE clock
             /\ smOp' = [name |-> "handleLessonCompletion", outcome |-> r.outcome,
                         userId |-> SessionUser, nodeId |-> Offered[1],
                         submissionUuid |-> sub, hintsUsed |-> hints, failAt |-> "none",
                         wasProcessed |-> FALSE,
                         recorded |-> r.recorded, isCorrect |-> r.isCorrect,
                         scoreAwarded |-> r.scoreAwarded, history |-> r.history,
                         progress |-> Core(r.progress), nextNode |-> r.nextNode,
                         preBatch |-> loadRawData(store),
                         preProcessed |-> processedSubmissions,
                         calls |-> 0, userAnswer |-> answer]
    /\ UNCHANGED <<eventHistory, psCalls, psResult>>
    /\ UNCHANGED <<stringStore, down, saved, faults, stOp, isDeveloper, peOp>>

JourneyNext == OpenLesson \/ SubmitCorrectAnswer

\* The learner keeps going: a call that can be made is made.
SpecJourney ==
    Init /\ [][JourneyNext]_vars /\ WF_vars(OpenLesson) /\ WF_vars(SubmitCorrectAnswer)

TreeIds == {RESKILLING_TREE[i].id : i \in 1..Len(RESKILLING_TREE)}

\* Every node of the skill tree is completed and no node is offered any more.
JourneyDone ==
    /\ smOp.outcome = "success"
    /\ IsNull(smOp.nextNode)
    /\ TreeIds \subseteq CompletedIds(loadRawData(store))

\* C29: with override mode off and starting from an empty log, a learner who
\* keeps submitting correct answers to the node offered as nextNode eventually
\* has completed every node of the skill tree and is offered no node.
C29_JourneyCompletesTheTree == <>JourneyDone

(***************************************************************************)
(* calculateUserState and its input array (SpecReplay).                    *)
(***************************************************************************)
\* C34: a calculateUserState call leaves the array it was handed as it was: the
\* same events in the same order, also when they are not in timestamp order.
C34_InputArrayIsNotTouched ==
    [][(psCalls' = <<eventHistory>> /\ Len(eventHistory') = Len(eventHistory))
          => eventHistory' = eventHistory]_vars

\* The rearrangements of a sequence.
Rearrangements(n) == {p \in [1..n -> 1..n] : \A i, j \in 1..n : p[i] = p[j] => i = j}

Permuted(events, p) == [i \in 1..Len(events) |-> events[p[i]]]

DistinctTimestamps(events) ==
    \A i, j \in 1..Len(events) : events[i].timestamp = events[j].timestamp => i = j

\* C35: calculateUserState gives the same xp and the same set of completed
\* nodes for every permutation of a history, and the same state altogether when
\* the timestamps of the history are pairwise distinct.
C35_OrderOfInputDoesNotMatter ==
    Replayed =>
        \A p \in Rearrangements(Len(psCalls[1])) :
            LET other == replayCalculateUserState(Permuted(psCalls[1], p))
            IN  /\ other.xp = psResult[1].xp
                /\ AsSet(other.completedNodes) = AsSet(psResult[1].completedNodes)
                /\ DistinctTimestamps(psCalls[1]) => other = psResult[1]

\* A history handed in latest first: a wrong attempt at time 2, then a right one
\* at time 1; the streak is 0, as it is for the history in time order.
C35_Witness ==
    /\ Replayed
    /\ Len(psCalls[1]) = 2
    /\ psCalls[1][1].timestamp = 2
    /\ psCalls[1][2].timestamp = 1
    /\ IsAttempt(psCalls[1][1], FALSE)
    /\ IsAttempt(psCalls[1][2], TRUE)
    /\ psResult[1].streak = 0

\* C38: the derived state has level = floor(xp / 100) + 1 and
\* xpToNextLevel = 100 - (xp mod 100): xp lies in the level's hundred,
\* xpToNextLevel is between 1 and 100 and xp + xpToNextLevel = 100 * level.
C38_LevelFollowsXp ==
    Replayed =>
        LET state == psResult[1]
        IN  /\ state.level >= 1
            /\ 100 * (state.level - 1) <= state.xp
            /\ state.xp < 100 * state.level
            /\ state.xpToNextLevel \in 1..100
            /\ state.xp + state.xpToNextLevel = 100 * state.level

\* 208 xp: level 3, 92 to go.
C38_Witness ==
    /\ Replayed
    /\ psResult[1].xp = 208
    /\ psResult[1].level = 3
    /\ psResult[1].xpToNextLevel = 92

(***************************************************************************)
(* The score handleLessonCompletion records (SpecSession).                 *)
(***************************************************************************)
\* The events of the log that carry the submission id of the last call.
EventsOfLastCall ==
    {loadRawData(store)[i] : i \in EventsOfSubmission(loadRawData(store), smOp.submissionUuid)}

\* C37: the scoreAwarded handleLessonCompletion records is 0 for an incorrect
\* answer and max(10 - 2 * hintsUsed, 1) for a correct one, so a correct answer
\* earns between 1 and 10.
C37_ScoreAwardedFormula ==
    (CalledHandleLessonCompletion /\ smOp.recorded = "id")
        => /\ smOp.scoreAwarded =
                 (IF ~smOp.isCorrect THEN 0
                  ELSE IF 10 - 2 * smOp.hintsUsed >= 1 THEN 10 - 2 * smOp.hintsUsed
                  ELSE 1)
           /\ smOp.isCorrect => smOp.scoreAwarded \in 1..10
           /\ \A e \in EventsOfLastCall :
                 e.scoreAwarded = smOp.scoreAwarded /\ e.isCorrect = smOp.isCorrect

\* A correct answer after five hints is recorded with a score of 1.
C37_Witness ==
    /\ CalledHandleLessonCompletion
    /\ smOp.recorded = "id"
    /\ smOp.isCorrect
    /\ smOp.hintsUsed = 5
    /\ smOp.scoreAwarded = 1
    /\ \E e \in EventsOfLastCall : e.scoreAwarded = 1

(***************************************************************************)
(* SpecRestart: the calls of SpecSession, and a new SessionManager         *)
(* constructed over the same engines and storage.                          *)
(***************************************************************************)
\* new SessionManager(engines): _processedSubmissions = new Set().
NewSessionManager ==
    /\ processedSubmissions # {}
    /\ processedSubmissions' = {}
    /\ smOp' = [NoCall EXCEPT !.name = "new SessionManager", !.calls = smOp.calls,
                              !.preBatch = loadRawData(store),
                              !.preProcessed = processedSubmissions]
    /\ UNCHANGED <<psVars, storeVars>>
    /\ UNCHANGED <<isDeveloper, peOp>>

RestartNext == HandleLessonCompletion \/ GetCurrentProgress \/ NewSessionManager

SpecRestart == Init /\ [][RestartNext]_vars

\* C31: the event log never holds two events with the same submissionUuid,
\* whatever handleLessonCompletion calls are made, also through a new
\* SessionManager constructed over the same storage.
C31_OneEventPerSubmission ==
    \A i, j \in 1..Len(loadRawData(store)) :
        loadRawData(store)[i].submissionUuid = loadRawData(store)[j].submissionUuid
            => i = j

(***************************************************************************)
(* Appending to a log that does not verify, the backup pair, and the ids   *)
(* (SpecStore).                                                            *)
(***************************************************************************)
\* A checksum is stored and it is not the checksum of the stored batch.
Mismatched(st) == ~IsNull(st["checksum"]) /\ ~ChecksumMatches(st)

\* C32: when the permanent batch does not match its stored checksum before
\* saveEvent is called, saveEvent fails or the getAllEvents call after it still
\* detects the corruption.
C32_SaveEventDoesNotLaunder ==
    [][(/\ CalledSaveEvent
        /\ Mismatched(stOp.pre)
        /\ stOp.outcome = "id"
        /\ stOp'.name = "getAllEvents")
          => stOp'.detected]_vars

\* C33: after every completed saveEvent or getAllEvents call (with no tampering
\* and no stop), a throwing write included, the backup slot and the backup
\* checksum slot are both empty or the backup checksum is the checksum of the
\* backup batch.
C33_BackupPairedWithChecksum ==
    (stOp.name \in {"saveEvent", "getAllEvents"} /\ faults.tamper = 0 /\ faults.stop = 0)
        => \/ IsNull(store["backup"]) /\ IsNull(store["backup_checksum"])
           \/ BackupPairMatches(store)

\* C36: no two events of the committed log have the same id, and the time
\* components of the ids do not decrease in insertion order.
C36_IdsUniqueAndOrdered ==
    LET batch == loadRawData(store)
    IN  /\ \A i, j \in 1..Len(batch) : batch[i].id = batch[j].id => i = j
        /\ \A i \in 1..(Len(batch) - 1) : batch[i].id[1] <= batch[i + 1].id[1]

(***************************************************************************)
(* EngineProvider: the engine set the application is mounted with          *)
(* (SpecProvider).                                                         *)
(***************************************************************************)
\* const policyEngine = new PolicyEngine(); policyEngine.configure({ isDeveloper: true });
\* The engines are built once (useMemo with no dependencies), before any call.
EngineProvider ==
    /\ peOp.name = "none"
    /\ isDeveloper' = configure(Some(TRUE))
    /\ peOp' = [NoPolicyCall EXCEPT !.name = "EngineProvider",
                                    !.developer = configure(Some(TRUE)),
                                    !.configured = Some(Some(TRUE))]
    /\ UNCHANGED <<psVars, storeVars>>
    /\ UNCHANGED <<processedSubmissions, smOp>>

\* The calls components make through useEngines(), which needs the provider.
UseEngines == peOp.name # "none" /\ PolicyNext

ProviderNext == EngineProvider \/ UseEngines

SpecProvider == Init /\ [][ProviderNext]_vars

\* C39: the engine set built by EngineProvider starts in student mode: right
\* after the provider has built it, the PolicyEngine has isDeveloper = false.
C39_ProviderStartsInStudentMode ==
    peOp.name = "EngineProvider" => ~isDeveloper

====
